---- MODULE Spec2Model ----
(***************************************************************************)
(* Orchestrator-workers pipeline of otel-orchestrator-project:             *)
(*   Orchestrator.createPlan         (task graph builder)                  *)
(*   Orchestrator.calculateExecutionOrder (layered topological batching)   *)
(*   WorkerExecutor.execute          (batch executor, Promise.all barrier) *)
(*   DependencyWorker / ConfigWorker / FileInstrumentationWorker.execute   *)
(* and the loops of the other pattern projects, each a program of its own: *)
(*   ReActAgent.run                  (reason-act)                          *)
(*   optimizeAPISpec                 (evaluator-optimizer)                 *)
(*   DebateEngine.runDebate          (agent-debate-workflow)               *)
(*   Router.route                    (routing)                             *)
(*   CodeReviewPipeline.run          (prompt-chaining)                     *)
(*   applyChanges                    (step 5 of the orchestrator's main)   *)
(***************************************************************************)
EXTENDS Integers, Sequences, FiniteSets, TLC

\* ------------------------------------------------------------------ bounds
\* longest analysis.files list
MaxFiles == 2
\* longest analysis.dependencies.missing list
MaxMissing == 1
\* longest task list handed directly to calculateExecutionOrder
MaxTasks == 3
\* largest ReActConfig.maxIterations
MaxIterations == 3
\* largest maxIterations handed to optimizeAPISpec
MaxOptimizerIterations == 3
\* largest DebateConfig.maxRounds
MaxDebateRounds == 3
\* longest list of changes handed to applyChanges
MaxChanges == 3

VARIABLES
  entry,          \* "main": main() on an analysis; "plan": a hand-built task list
  analysis,       \* CodebaseAnalysis: [missing, files]
  tasks,          \* InstrumentationTask[] (plan.tasks)
  pc,             \* position in createPlan / calculateExecutionOrder / execute
  order,          \* calculateExecutionOrder: order (plan.executionOrder on return)
  completed,      \* calculateExecutionOrder: completed
  remaining,      \* calculateExecutionOrder: remaining
  batchIdx,       \* execute: index of the batch of the for-loop (1-based)
  promise,        \* execute: promise of executeTask(task), per index of plan.tasks
  workerResults,  \* execute: workerResults
  errors,         \* execute: errors
  success,        \* execute: OrchestrationResult.success (set on return)
  react,          \* ReActAgent.run: its locals, its position and its result
  optimizer,      \* optimizeAPISpec: its locals, its position and its result
  debate,         \* DebateEngine.runDebate: the DebateState, locals and position
  router,         \* Router.route: the classification, the handler calls, the response
  pipeline,       \* CodeReviewPipeline.run: its locals, the prompts sent, its result
  writer          \* applyChanges: the changes, the loop position, the files written

orchVars == <<entry, analysis, tasks, pc, order, completed, remaining,
              batchIdx, promise, workerResults, errors, success>>
\* the programs other than the orchestrator pipeline
patternVars == <<react, optimizer, debate, router, pipeline, writer>>
vars == <<orchVars, patternVars>>
\* what a step of one program leaves alone
notReAct == <<orchVars, optimizer, debate, router, pipeline, writer>>
notOptimizer == <<orchVars, react, debate, router, pipeline, writer>>
notDebate == <<orchVars, react, optimizer, router, pipeline, writer>>
notRouter == <<orchVars, react, optimizer, debate, pipeline, writer>>
notPipeline == <<orchVars, react, optimizer, debate, router, writer>>
notWriter == <<orchVars, react, optimizer, debate, router, pipeline>>
schedVars == <<order, completed, remaining>>
execVars == <<batchIdx, promise, workerResults, errors, success>>

\* ------------------------------------------------------------ sequences
Range(s) == {s[i] : i \in DOMAIN s}

RECURSIVE Flatten(_)
Flatten(ss) == IF ss = <<>> THEN <<>> ELSE Head(ss) \o Flatten(Tail(ss))

SeqsUpTo(S, n) == UNION {[1..k -> S] : k \in 0..n}

\* s.indexOf(x): the first index holding x, 0 when there is none (JS: -1)
IndexOf(s, x) ==
  IF \E i \in DOMAIN s : s[i] = x
    THEN CHOOSE i \in DOMAIN s : s[i] = x /\ \A j \in 1..(i - 1) : s[j] # x
    ELSE 0

\* s.splice(i, 1) for an index of s
Splice(s, i) == [j \in 1..(Len(s) - 1) |-> IF j < i THEN s[j] ELSE s[j + 1]]

\* ------------------------------------------------------------ the analysis
\* A path is the sequence of its words; path.includes(w) for the words the
\* code looks for.
Includes(path, w) == \E i \in DOMAIN path : path[i] = w

\* utility paths: one per keyword, one holding two keywords, one holding none
UtilityPaths ==
  {<<"src", "utils", "database">>,
   <<"src", "utils", "cache">>,
   <<"src", "utils", "external">>,
   <<"src", "utils", "api">>,
   <<"src", "utils", "database", "cache">>,
   <<"src", "utils", "helpers">>}

\* FileAnalysis: type and path are all createPlan reads to build the graph
FileDescriptors ==
  {[type |-> "route", path |-> <<"src", "routes", "users">>],
   [type |-> "service", path |-> <<"src", "services", "userService">>],
   [type |-> "middleware", path |-> <<"src", "middleware", "auth">>]}
  \cup {[type |-> "utility", path |-> p] : p \in UtilityPaths}

Packages == {"@opentelemetry/api"}

\* readCodebase lists every file of the tree once: the paths are distinct
FileLists ==
  {fs \in SeqsUpTo(FileDescriptors, MaxFiles) :
     \A i, j \in DOMAIN fs : fs[i].path = fs[j].path => i = j}

Analyses == [missing : SeqsUpTo(Packages, MaxMissing), files : FileLists]

EmptyAnalysis == [missing |-> <<>>, files |-> <<>>]

\* ------------------------------------------------------------ createPlan
\* `${type}-${n}`
TaskId(type, n) == <<type, n>>

\* mutant: middleware files are instrumented as http handlers
selectWorkerTypeMiddleware(file) ==
  CASE file.type \in {"route", "middleware"} -> "http"
    [] file.type = "service" -> "service"
    [] file.type = "utility" ->
         IF Includes(file.path, "database") THEN "database"
         ELSE IF Includes(file.path, "cache") THEN "cache"
         ELSE IF Includes(file.path, "external") \/ Includes(file.path, "api")
              THEN "external-api"
         ELSE "null"
    [] OTHER -> "null"

\* mutant: the 'cache' test is missing
selectWorkerTypeNoCache(file) ==
  CASE file.type = "route" -> "http"
    [] file.type = "service" -> "service"
    [] file.type = "utility" ->
         IF Includes(file.path, "database") THEN "database"
         ELSE IF Includes(file.path, "external") \/ Includes(file.path, "api")
              THEN "external-api"
         ELSE "null"
    [] OTHER -> "null"

selectWorkerType(file) ==
  CASE file.type = "route" -> "http"
    [] file.type = "service" -> "service"
    [] file.type = "utility" ->
         IF Includes(file.path, "database") THEN "database"
         ELSE IF Includes(file.path, "cache") THEN "cache"
         ELSE IF Includes(file.path, "external") \/ Includes(file.path, "api")
              THEN "external-api"
         ELSE "null"
    [] OTHER -> "null"

Task(id, type, targetFile, priority, dependencies) ==
  [id |-> id, type |-> type, targetFile |-> targetFile,
   priority |-> priority, dependencies |-> dependencies]

\* the for-loop of createFileInstrumentationTasks over files, taskId threaded
RECURSIVE FileTasksFrom(_, _, _)
FileTasksFrom(files, configTaskId, taskId) ==
  IF files = <<>> THEN <<>>
  ELSE LET workerType == selectWorkerType(Head(files))
       IN IF workerType # "null"
            THEN <<Task(TaskId(workerType, taskId + 1), workerType,
                        Head(files).path, 3, {configTaskId})>>
                 \o FileTasksFrom(Tail(files), configTaskId, taskId + 1)
            ELSE FileTasksFrom(Tail(files), configTaskId, taskId)

\* mutant: the file tasks chain on one another instead of on the config task
RECURSIVE FileTasksChained(_, _, _)
FileTasksChained(files, prevTaskId, taskId) ==
  IF files = <<>> THEN <<>>
  ELSE LET workerType == selectWorkerType(Head(files))
       IN IF workerType # "null"
            THEN <<Task(TaskId(workerType, taskId + 1), workerType,
                        Head(files).path, 3, {prevTaskId})>>
                 \o FileTasksChained(Tail(files), TaskId(workerType, taskId + 1),
                                     taskId + 1)
            ELSE FileTasksChained(Tail(files), prevTaskId, taskId)

\* mutant: the file tasks are numbered from 1 again
createFileInstrumentationTasksRestart(a, configTaskId, startingId) ==
  FileTasksFrom(a.files, configTaskId, 0)

createFileInstrumentationTasksChained(a, configTaskId, startingId) ==
  FileTasksChained(a.files, configTaskId, startingId)

createFileInstrumentationTasks(a, configTaskId, startingId) ==
  FileTasksFrom(a.files, configTaskId, startingId)

\* mutant: the dependency task is emitted whatever the missing list holds
DependencyTasksAlways(a) ==
  <<Task(TaskId("dependency", 1), "dependency", <<"package.json">>, 1, {})>>

\* tasks after "Task 1": the dependency task, when packages are missing
DependencyTasks(a) ==
  IF Len(a.missing) > 0
    THEN <<Task(TaskId("dependency", 1), "dependency", <<"package.json">>, 1, {})>>
    ELSE <<>>

\* mutant: the config task is given no prerequisites
ConfigDependenciesNone(ts) == {}

\* tasks.filter(t => t.type === 'dependency').map(t => t.id); the list is read
\* only through every(), so it is kept as the set of its elements
ConfigDependencies(ts) == {ts[i].id : i \in {j \in DOMAIN ts : ts[j].type = "dependency"}}

\* the task list createPlan has built when it calls calculateExecutionOrder
PlanTasks(a) ==
  LET depTasks == DependencyTasks(a)
      counter1 == Len(depTasks)
      configTaskId == TaskId("config", counter1 + 1)
      configTask == Task(configTaskId, "config", <<"src", "tracing.ts">>, 2,
                         ConfigDependencies(depTasks))
      counter2 == counter1 + 1
  IN depTasks \o <<configTask>>
       \o createFileInstrumentationTasks(a, configTaskId, counter2)

\* ------------------------------------------------ calculateExecutionOrder
\* mutant: one ready task per batch
BatchOneAtATime(rem, comp) ==
  LET ready == SelectSeq(rem, LAMBDA t : t.dependencies \subseteq comp)
  IN IF ready = <<>> THEN <<>> ELSE <<Head(ready)>>

\* mutant: a prerequisite that is the id of no remaining task counts as completed
BatchIgnoreDangling(rem, comp) ==
  SelectSeq(rem, LAMBDA t : \A dep \in t.dependencies :
                             dep \in comp \/ \A k \in DOMAIN rem : rem[k].id # dep)

\* mutant: some() in place of every()
BatchSome(rem, comp) ==
  SelectSeq(rem, LAMBDA t : t.dependencies = {} \/ t.dependencies \cap comp # {})

\* remaining.filter(task => task.dependencies.every(dep => completed.has(dep)))
Batch(rem, comp) == SelectSeq(rem, LAMBDA t : t.dependencies \subseteq comp)

\* mutant: only the first task of the batch is spliced out of remaining
RemoveBatchFirstOnly(rem, batch) ==
  IF batch = <<>> THEN rem ELSE Splice(rem, IndexOf(rem, Head(batch)))

\* batch.forEach(task => remaining.splice(remaining.indexOf(task), 1))
RECURSIVE RemoveBatch(_, _)
RemoveBatch(rem, batch) ==
  IF batch = <<>> THEN rem
  ELSE RemoveBatch(Splice(rem, IndexOf(rem, Head(batch))), Tail(batch))

BatchIds(batch) == [k \in DOMAIN batch |-> batch[k].id]

\* ------------------------------------------------------------ the workers
\* executeTask: the worker class chosen for a task type
WorkerClass(type) ==
  IF type = "dependency" THEN "DependencyWorker"
  ELSE IF type = "config" THEN "ConfigWorker"
  ELSE "FileInstrumentationWorker"

\* DependencyWorker and FileInstrumentationWorker read the target file first
ReadsFile(type) == WorkerClass(type) # "ConfigWorker"

\* An LLM text: its code fence ("none" when there is none) and what it holds.
Unfenced(c) == [fence |-> "none", body |-> c.body]

\* content.match(/```(?:json)?\n([\s\S]*?)\n```/), else the content as it is
extractJSON(c) == IF c.fence \in {"json", "plain"} THEN Unfenced(c) ELSE c

\* the typescript|ts fence, then the bare fence, else the content as it is
extractCode(c) == IF c.fence \in {"ts", "typescript", "plain"} THEN Unfenced(c) ELSE c

\* JSON.parse(newContent) does not throw
JSONParses(c) == c.fence = "none" /\ c.body = "json"

\* what client.generateCompletion may resolve to for a task's prompt
LLMContents(type) ==
  IF WorkerClass(type) = "DependencyWorker"
    THEN {[fence |-> f, body |-> b] : f \in {"none", "json"}, b \in {"json", "prose"}}
    ELSE {[fence |-> f, body |-> "code"] : f \in {"none", "ts"}}

\* the settlements of client.generateCompletion: a rejection or a response
LLMOutcomes(type) ==
  {[threw |-> TRUE, content |-> [fence |-> "none", body |-> "none"]]}
  \cup {[threw |-> FALSE, content |-> c] : c \in LLMContents(type)}

FileChange(path, operation, newContent) ==
  [path |-> path, operation |-> operation, newContent |-> newContent]

createSuccessResult(taskId, workerType, changes, message) ==
  [taskId |-> taskId, workerType |-> workerType, success |-> TRUE,
   changes |-> changes, message |-> message, errors |-> <<>>, warnings |-> <<>>]

\* mutant: the error string goes to message and errors stays empty
createFailureResultNoErrors(taskId, workerType, error, changes) ==
  [taskId |-> taskId, workerType |-> workerType, success |-> FALSE,
   changes |-> changes, message |-> error, errors |-> <<>>]

createFailureResult(taskId, workerType, error, changes) ==
  [taskId |-> taskId, workerType |-> workerType, success |-> FALSE,
   changes |-> changes, message |-> "Task failed", errors |-> <<error>>]

\* states of the promise returned by worker.execute(task)
Pending == [state |-> "pending"]
Fulfilled(v) == [state |-> "fulfilled", value |-> v]
Rejected(e) == [state |-> "rejected", reason |-> e]

\* mutant: no catch block, the error leaves execute
Uncaught(task, error) == [state |-> "rejected", reason |-> error]

\* the catch block of execute: return this.createFailureResult(task.id, message)
Caught(task, error) == Fulfilled(createFailureResult(task.id, task.type, error, <<>>))

\* execute from its entry to the await of generateCompletion
WorkerStart(task, readThrows) ==
  IF ReadsFile(task.type) /\ readThrows
    THEN Caught(task, "ENOENT: no such file or directory")
    ELSE Pending

\* the operation tag of the change a worker proposes
ChangeOperation(type) == IF WorkerClass(type) = "ConfigWorker" THEN "create" ELSE "modify"

SuccessMessage(type) ==
  CASE WorkerClass(type) = "DependencyWorker" ->
         "Successfully updated package.json with OpenTelemetry dependencies"
    [] WorkerClass(type) = "ConfigWorker" ->
         "Successfully created tracing configuration file"
    [] OTHER -> "Successfully instrumented"

\* execute from the settlement of generateCompletion to its return
WorkerResume(task, llm) ==
  IF llm.threw THEN Caught(task, "Anthropic API error")
  ELSE IF WorkerClass(task.type) = "DependencyWorker"
    THEN LET newContent == extractJSON(llm.content)
         IN IF ~JSONParses(newContent)
              THEN Caught(task, "Unexpected token in JSON")
              ELSE Fulfilled(createSuccessResult(task.id, task.type,
                     <<FileChange(task.targetFile, ChangeOperation(task.type), newContent)>>,
                     SuccessMessage(task.type)))
    ELSE LET newContent == extractCode(llm.content)
         IN Fulfilled(createSuccessResult(task.id, task.type,
              <<FileChange(task.targetFile, ChangeOperation(task.type), newContent)>>,
              SuccessMessage(task.type)))

\* ------------------------------------------------- WorkerExecutor.execute
\* mutant: the tasks of the batch are taken in reverse order
BatchTaskIdxReversed(b) ==
  LET idx == SelectSeq([i \in 1..Len(tasks) |-> i],
                       LAMBDA i : \E k \in DOMAIN order[b] : order[b][k] = tasks[i].id)
  IN [k \in DOMAIN idx |-> idx[Len(idx) + 1 - k]]

\* plan.tasks.filter(task => batchIds.includes(task.id)), as indices of plan.tasks
BatchTaskIdx(b) ==
  SelectSeq([i \in 1..Len(tasks) |-> i],
            LAMBDA i : \E k \in DOMAIN order[b] : order[b][k] = tasks[i].id)

\* Promise.all over the promises ps: rejected as soon as one is, fulfilled once
\* all are, pending otherwise
PromiseAll(ps) ==
  IF \E k \in DOMAIN ps : ps[k].state = "rejected" THEN "rejected"
  ELSE IF \A k \in DOMAIN ps : ps[k].state = "fulfilled" THEN "fulfilled"
  ELSE "pending"

\* the error strings execute collects from one batch's results
BatchErrors(results) ==
  LET failed == SelectSeq(results, LAMBDA r : ~r.success)
  IN Flatten([k \in DOMAIN failed |-> failed[k].errors])

\* mutant: some() in place of every()
AnySucceeded(results) == \E k \in DOMAIN results : results[k].success

\* workerResults.every(r => r.success)
AllSucceeded(results) == \A k \in DOMAIN results : results[k].success

\* ------------------------------------------------------------ task lists
\* A hand-built task list: n tasks with the distinct ids http-1 .. http-n in
\* list order; each lists any ids of http-1 .. http-MaxTasks as prerequisites
\* (itself, later tasks and, when n < MaxTasks, ids of no task included).
PlanIds == {TaskId("http", i) : i \in 1..MaxTasks}

HandBuiltTasks(n, deps) ==
  [i \in 1..n |-> Task(TaskId("http", i), "http", <<"src", "routes", "users">>,
                       3, deps[i])]

\* ------------------------------------------------------------ ReActAgent
\* actionInput strings the LLM hands to an action
Inputs == {"paris", "timeout"}

\* response.confidence is optional: <<>> is undefined, <<n>> a number
Confidences == {<<>>, <<90>>}

\* JSON.parse(...) as ReActResponse is unchecked: the action may be any string
ReActResponses ==
  [action : {"search", "lookup", "final_answer", "calculate"},
   actionInput : Inputs, confidence : Confidences]

\* response.confidence || 0
ConfidenceOrZero(c) == IF c = <<>> THEN 0 ELSE c[1]

\* An observation is a text, kept as the sequence of its lines; a line is the
\* set of its lower-cased words (lowerLine.includes(term)).
TavilyResults(query) == <<{query, "result"}>>

\* ActionExecutor.search: a failed search is returned as an observation
search(query, tavilyThrows) ==
  IF tavilyThrows THEN <<{"search", "failed:", "timeout"}>>
  ELSE TavilyResults(query)

\* ActionExecutor.lookup; the separator lines of the join hold no query term
lookup(query, history) ==
  LET searchSteps == SelectSeq(history, LAMBDA step : step.action = "search")
      searchObservations == [k \in DOMAIN searchSteps |-> searchSteps[k].observation]
  IN IF Len(searchObservations) = 0
       THEN <<{"no", "previous", "search", "results"}>>
       ELSE LET relevantLines ==
                  SelectSeq(Flatten(searchObservations), LAMBDA line : query \in line)
            IN IF Len(relevantLines) = 0
                 THEN <<{"no", "information", "found"}>>
                 ELSE relevantLines

KnownAction(action) == action \in {"search", "lookup", "final_answer"}

\* ActionExecutor.execute for the three actions of its switch
execute(action, input, history, tavilyThrows) ==
  CASE action = "search" -> search(input, tavilyThrows)
    [] action = "lookup" -> lookup(input, history)
    [] action = "final_answer" -> <<{input}>>

ReActStep(response, observation) ==
  [action |-> response.action, actionInput |-> response.actionInput,
   observation |-> observation, confidence |-> response.confidence]

ReActResult(answer, confidence, history, iterations, stoppedReason) ==
  [answer |-> answer, confidence |-> confidence, history |-> history,
   iterations |-> iterations, stoppedReason |-> stoppedReason]

NoResponse == [action |-> "none", actionInput |-> "none", confidence |-> <<>>]

NoResult == ReActResult("none", 0, <<>>, 0, "none")

\* run(question) is entered: history = [], i = 0; llmCalls and actCalls count
\* the calls of getReActResponse and of ActionExecutor.execute
ReActEntered(maxIterations) ==
  [pc |-> "for", maxIterations |-> maxIterations, i |-> 0, history |-> <<>>,
   response |-> NoResponse, result |-> NoResult, error |-> "none",
   llmCalls |-> 0, actCalls |-> 0]

ReActIdle == [ReActEntered(0) EXCEPT !.pc = "idle"]

\* ------------------------------------------------------------ optimizeAPISpec
\* maxIterations: number = 5
DefaultMaxIterations == 5

\* "Accept only if overallScore >= 85" (the evaluator's prompt)
AcceptanceThreshold == 85

\* the maxIterations argument: <<>> when omitted, <<n>> when given
MaxIterationsOf(arg) == IF arg = <<>> THEN DefaultMaxIterations ELSE arg[1]

\* specs the generator's reply parses to: a valid OpenAPI document without
\* info.version and servers, and a document SwaggerParser rejects
Specs == {[valid |-> TRUE, version |-> FALSE, servers |-> FALSE],
          [valid |-> FALSE, version |-> TRUE, servers |-> TRUE]}

validateOpenAPISpec(spec) ==
  IF spec.valid
    THEN [isValid |-> TRUE, errors |-> <<>>,
          warnings |-> (IF spec.version THEN <<>>
                          ELSE <<"API version not specified in info.version">>)
                       \o (IF spec.servers THEN <<>> ELSE <<"No server URLs defined">>)]
    ELSE [isValid |-> FALSE, errors |-> <<"not a valid OpenAPI definition">>,
          warnings |-> <<>>]

EvaluatorReply(decision, overallScore, criteria, criticalIssues) ==
  [decision |-> decision, overallScore |-> overallScore, criteria |-> criteria,
   criticalIssues |-> criticalIssues]

\* objects the evaluator's reply parses to; nothing ties decision to the
\* score or to the issues but the wording of the prompt
EvaluatorReplies ==
  {EvaluatorReply("accepted", 90, "scores", <<>>),
   EvaluatorReply("accepted", 60, "scores", <<"no authentication scheme">>),
   EvaluatorReply("rejected", 60, "scores", <<"no authentication scheme">>),
   EvaluatorReply("rejected", 90, "scores", <<>>),
   EvaluatorReply("rejected", 0, "scores", <<"nothing usable">>),
   EvaluatorReply("", 60, "scores", <<>>),
   EvaluatorReply("rejected", 60, "undefined", <<>>)}

\* !evaluation.decision || !evaluation.overallScore || !evaluation.criteria
InvalidStructure(evaluation) ==
  \/ evaluation.decision = ""
  \/ evaluation.overallScore = 0
  \/ evaluation.criteria = "undefined"

IterationResult(iteration, spec, evaluation, validationErrors) ==
  [iteration |-> iteration, spec |-> spec, evaluation |-> evaluation,
   validationErrors |-> validationErrors]

OptimizationResult(finalSpec, accepted, iterations, qualityProgression, totalIterations) ==
  [finalSpec |-> finalSpec, accepted |-> accepted, iterations |-> iterations,
   qualityProgression |-> qualityProgression, totalIterations |-> totalIterations]

UndefinedSpec == [valid |-> FALSE, version |-> FALSE, servers |-> FALSE]

NoOptimizationResult == OptimizationResult(UndefinedSpec, FALSE, <<>>, <<>>, 0)

\* optimizeAPISpec is entered: iterations = [], qualityProgression = [], i = 1;
\* rounds counts the rounds begun
OptimizerEntered(arg) ==
  [pc |-> "for", arg |-> arg, maxIterations |-> MaxIterationsOf(arg), i |-> 1,
   iterations |-> <<>>, qualityProgression |-> <<>>,
   currentSpec |-> UndefinedSpec, rounds |-> 0,
   result |-> NoOptimizationResult, error |-> "none"]

OptimizerIdle == [OptimizerEntered(<<0>>) EXCEPT !.pc = "idle"]

\* ------------------------------------------------------------ DebateEngine
\* createStandardDebaters: the keys of this.debaters
DebaterRoles == {"engineer", "business", "security"}

\* what parseJSONResponse hands back for the opening: firstSpeaker is unchecked
Openings == [firstSpeaker : DebaterRoles \cup {"legal"}, question : {"q0"}]

\* what parseJSONResponse hands back as ModeratorAction: nextSpeaker and
\* question are optional, nextSpeaker is unchecked
ModeratorActions ==
  [type : {"ask_speaker", "declare_convergence"},
   nextSpeaker : DebaterRoles \cup {"legal", "undefined"},
   question : {"q1", "undefined"},
   observedAgreements : {<<>>, <<"use a queue">>},
   observedDisagreements : {<<>>, <<"cost">>}]

\* Array.from(new Set(s))
RECURSIVE Dedupe(_)
Dedupe(s) ==
  IF s = <<>> THEN <<>>
  ELSE LET init == Dedupe(SubSeq(s, 1, Len(s) - 1))
       IN IF s[Len(s)] \in Range(init) THEN init ELSE Append(init, s[Len(s)])

mergeUnique(existing, newItems) == Dedupe(existing \o newItems)

\* addMessage: the message carries the round it was said in
addMessage(d, speaker, content) ==
  Append(d.messages, [speaker |-> speaker, content |-> content,
                      roundNumber |-> d.currentRound])

\* initializeDebateState, and runDebate about to call moderator.openDebate;
\* responses counts the debater responses obtained
DebateEntered(maxRounds) ==
  [pc |-> "openDebate", maxRounds |-> maxRounds, messages |-> <<>>,
   currentRound |-> 1, pointsOfAgreement |-> <<>>,
   pointsOfDisagreement |-> <<>>, hasConverged |-> FALSE,
   finalRecommendation |-> "undefined", currentSpeaker |-> "undefined",
   currentQuestion |-> "undefined", responses |-> 0, error |-> "none"]

DebateIdle == [DebateEntered(0) EXCEPT !.pc = "idle"]

\* getDebateStats: the statistics read off a debate state
getDebateStats(d) ==
  [totalMessages |-> Len(d.messages),
   messagesByRole |-> [role \in {d.messages[k].speaker : k \in DOMAIN d.messages} |->
                         Cardinality({k \in DOMAIN d.messages :
                                        d.messages[k].speaker = role})],
   totalRounds |-> d.currentRound,
   converged |-> d.hasConverged]

\* an awaited call of the moderator or of a debater throws: runDebate rejects
DebateThrows(d, error) == [d EXCEPT !.pc = "rejected", !.error = error]

\* ------------------------------------------------------------ Router
Intents == {"data_lookup", "calculation", "web_search", "reasoning"}

\* criticalFlags of shouldReject
CriticalFlags ==
  {"potential_sql_injection", "bulk_deletion", "potential_malicious_intent",
   "destructive_operation", "destructive_command", "deletion_request",
   "system_command"}

\* classification.confidence < 0.6, confidences in hundredths
ConfidenceThreshold == 60

\* the safety flags a classification reply may list
ReplyFlags == {"potential_sql_injection", "bulk_operation", "pii_request"}

\* the JSON a classification reply parses to: optional fields are <<>> when
\* absent and <<v>> when present; the intent and the confidence may be invalid
ParsedClassifications ==
  {[intent |-> i, confidence |-> c, requiresConfirmation |-> r, safetyFlags |-> f] :
     i \in Intents \cup {"chitchat"}, c \in {0, 59, 60, 90, 150},
     r \in {<<>>, <<FALSE>>, <<TRUE>>},
     f \in {<<>>} \cup {<<flags>> : flags \in SUBSET ReplyFlags}}

\* the fallback classifyIntent returns when the reply does not parse or validate
FallbackClassification ==
  [intent |-> "reasoning", confidence |-> 0, requiresConfirmation |-> <<>>,
   safetyFlags |-> <<>>]

\* validateClassification in the try block of classifyIntent: an invalid intent
\* or confidence throws into the fallback; requiresConfirmation and safetyFlags
\* default to false and []
validateClassification(parsed) ==
  IF parsed.intent \notin Intents THEN FallbackClassification
  ELSE IF parsed.confidence < 0 \/ parsed.confidence > 100 THEN FallbackClassification
  ELSE [intent |-> parsed.intent, confidence |-> parsed.confidence,
        requiresConfirmation |->
          IF parsed.requiresConfirmation = <<>> THEN <<FALSE>>
          ELSE parsed.requiresConfirmation,
        safetyFlags |->
          IF parsed.safetyFlags = <<>> THEN <<{}>> ELSE parsed.safetyFlags]

\* classification.safetyFlags?.includes(flag) || false
HasFlag(classification, flag) ==
  classification.safetyFlags # <<>> /\ flag \in classification.safetyFlags[1]

shouldReject(classification) ==
  LET hasCriticalFlag == \E flag \in CriticalFlags : HasFlag(classification, flag)
      hasBulkOperation == HasFlag(classification, "bulk_operation")
      requiresConfirmation ==
        IF classification.requiresConfirmation = <<>> THEN FALSE
        ELSE classification.requiresConfirmation[1]
  IN hasCriticalFlag \/ (hasBulkOperation /\ requiresConfirmation)

\* a RouterResponse: the handler named in the metadata, success and error of
\* the handlerResponse, and whether the PII note was appended to the output
RouterResponse(handler, rsuccess, rerror, piiNote) ==
  [handler |-> handler, success |-> rsuccess, error |-> rerror, piiNote |-> piiNote]

createRejectionResponse ==
  RouterResponse("Router (Security)", FALSE,
                 "Query rejected due to safety concerns", FALSE)

createLowConfidenceResponse ==
  RouterResponse("Router (Clarification)", FALSE,
                 "Low confidence - clarification needed", FALSE)

createErrorResponse(error) == RouterResponse("Router (Error)", FALSE, error, FALSE)

\* the handlers map of the constructor
HandlerOf(intent) ==
  CASE intent = "data_lookup" -> "DataLookupHandler"
    [] intent = "calculation" -> "CalculationHandler"
    [] intent = "web_search" -> "WebSearchHandler"
    [] intent = "reasoning" -> "ReasoningHandler"
    [] OTHER -> "undefined"

\* mutant: the confidence check comes before the safety check
RouteDecisionConfidenceFirst(classification) ==
  IF classification.confidence < ConfidenceThreshold THEN "clarify"
  ELSE IF shouldReject(classification) THEN "reject"
  ELSE IF HandlerOf(classification.intent) = "undefined" THEN "error"
  ELSE "handle"

\* the checks of route between the classification and the handler call, in
\* their order: safety, confidence, handlers.get
RouteDecision(classification) ==
  IF shouldReject(classification) THEN "reject"
  ELSE IF classification.confidence < ConfidenceThreshold THEN "clarify"
  ELSE IF HandlerOf(classification.intent) = "undefined" THEN "error"
  ELSE "handle"

\* route about to await classifier.classifyIntent; handled lists the handlers
\* route has called
RouterEntered ==
  [pc |-> "classifyIntent", classification |-> FallbackClassification,
   hasPiiWarning |-> FALSE, handled |-> <<>>,
   response |-> RouterResponse("none", FALSE, "none", FALSE),
   error |-> "none"]

RouterIdle == [RouterEntered EXCEPT !.pc = "idle"]

\* ------------------------------------------------------------ CodeReviewPipeline
\* An LLM reply to a step's prompt: its code fence, whether what the fence
\* holds is JSON, and the fields of that JSON the pipeline reads.
AnalysisReplies ==
  {[fence |-> f, json |-> j, overall_assessment |-> a, lists |-> l] :
     f \in {"none", "json", "ts"}, j \in BOOLEAN,
     a \in {"ISSUES_FOUND", "NO_ISSUES_FOUND", "undefined"}, l \in BOOLEAN}

SolutionsReplies ==
  {[fence |-> f, json |-> j, recommendations |-> r] :
     f \in {"none", "json", "ts"}, j \in BOOLEAN, r \in BOOLEAN}

\* replies to the update prompt and to the commit prompt
PlainReplies == {[fence |-> f, json |-> j] : f \in {"none", "json", "ts"}, j \in BOOLEAN}

\* the ```json fence is stripped; a bare-``` strip leaves any other fence in
\* place; then JSON.parse: does it return
ParsesAfterCleaning(reply) == reply.json /\ reply.fence \in {"none", "json"}

\* analyzeCode from the reply on: lists tells whether complexity, antiPatterns,
\* bugs and securityRisks are arrays (the fallback has empty arrays)
analyzeCode(reply) ==
  IF ParsesAfterCleaning(reply)
    THEN [summary |-> "summary", lists |-> reply.lists,
          hasIssues |-> (reply.overall_assessment = "ISSUES_FOUND"),
          rawResponse |-> reply]
    ELSE [summary |-> "Error parsing response", lists |-> TRUE,
          hasIssues |-> FALSE, rawResponse |-> reply]

\* proposeSolutions from the reply on: recommendations tells whether
\* parsed.recommendations is an array
proposeSolutions(reply) ==
  IF ParsesAfterCleaning(reply)
    THEN [summary |-> "summary", recommendations |-> reply.recommendations,
          rawResponse |-> reply]
    ELSE [summary |-> "Error parsing response", recommendations |-> TRUE,
          rawResponse |-> reply]

generateUpdatedCode(reply) ==
  IF ParsesAfterCleaning(reply)
    THEN [updatedContent |-> "updated_code", changesSummary |-> "changes_summary",
          rawResponse |-> reply]
    ELSE [updatedContent |-> "", changesSummary |-> "Error parsing response",
          rawResponse |-> reply]

generateCommitMessage(reply) ==
  IF ParsesAfterCleaning(reply)
    THEN [commitMessage |-> "commit_message", rawResponse |-> reply]
    ELSE [commitMessage |-> "Error generating commit message", rawResponse |-> reply]

\* mutant: the gate lets every analysis through
GateOpen(a) == FALSE

\* the gate of run: if (!analysis.hasIssues) return
Gate(a) == ~a.hasIssues

\* a PipelineResult; a key that is absent is <<>>, a key that is present <<v>>
PipelineResult(a, proposedSolutions, updatedCode, commitInfo, psuccess, perror) ==
  [analysis |-> a, proposedSolutions |-> proposedSolutions,
   updatedCode |-> updatedCode, commitInfo |-> commitInfo,
   success |-> psuccess, error |-> perror]

\* the catch block of run: analysis is {} (here <<"{}">>), success false
PipelineFailure(perror) ==
  PipelineResult(<<"{}">>, <<>>, <<>>, <<>>, FALSE, <<perror>>)

\* run about to await the sendMessage of analyzeCode; the locals are <<>>
\* until assigned; sent lists the prompts handed to client.sendMessage, each
\* with the step that built it and the earlier outputs it was built from
PipelineEntered ==
  [pc |-> "analyzeCode", analysis |-> <<>>, solutions |-> <<>>,
   updatedCode |-> <<>>, commitInfo |-> <<>>,
   sent |-> <<[step |-> "analyzeCode", inputs |-> <<>>]>>,
   result |-> PipelineResult(<<>>, <<>>, <<>>, <<>>, FALSE, <<>>)]

PipelineIdle == [PipelineEntered EXCEPT !.pc = "idle", !.sent = <<>>]

PipelineReturns(p, result) == [p EXCEPT !.pc = "returned", !.result = result]

\* ------------------------------------------------------------ applyChanges
\* applyChanges at the head of its for-loop: i is the index of the change the
\* loop is at, written the paths writeFile has written
WriterEntered(changes) ==
  [pc |-> "for", changes |-> changes, i |-> 1, written |-> <<>>, error |-> "none"]

WriterIdle == [WriterEntered(<<>>) EXCEPT !.pc = "idle"]

\* ------------------------------------------------------------ initial states
NoPromise == [state |-> "none"]

\* no other program is running
PatternsIdle ==
  /\ react = ReActIdle
  /\ optimizer = OptimizerIdle
  /\ debate = DebateIdle
  /\ router = RouterIdle
  /\ pipeline = PipelineIdle
  /\ writer = WriterIdle

InitExec ==
  /\ batchIdx = 1
  /\ promise = <<>>
  /\ workerResults = <<>>
  /\ errors = <<>>
  /\ success = FALSE

InitSched ==
  /\ order = <<>>
  /\ completed = {}
  /\ remaining = <<>>

\* main(): an analysis, about to call Orchestrator.createPlan
InitMain ==
  /\ entry = "main"
  /\ analysis \in Analyses
  /\ tasks = <<>>
  /\ pc = "createPlan"
  /\ InitSched
  /\ InitExec
  /\ PatternsIdle

\* a task list about to be handed to calculateExecutionOrder
InitPlan ==
  /\ entry = "plan"
  /\ analysis = EmptyAnalysis
  /\ \E n \in 0..MaxTasks : \E deps \in [1..n -> SUBSET PlanIds] :
       tasks = HandBuiltTasks(n, deps)
  /\ pc = "calculateExecutionOrder"
  /\ InitSched
  /\ InitExec
  /\ PatternsIdle

\* the orchestrator pipeline is not running
OrchIdle ==
  /\ entry = "none"
  /\ analysis = EmptyAnalysis
  /\ tasks = <<>>
  /\ pc = "idle"
  /\ InitSched
  /\ InitExec

Init == InitMain \/ InitPlan

\* ------------------------------------------------------------ createPlan
\* createPlan up to its call of calculateExecutionOrder (lines 13-55)
CreatePlan ==
  /\ pc = "createPlan"
  /\ tasks' = PlanTasks(analysis)
  /\ pc' = "calculateExecutionOrder"
  /\ UNCHANGED <<patternVars, entry, analysis, schedVars, execVars>>

\* entry of calculateExecutionOrder: order = [], completed = {}, remaining = [...tasks]
SchedEnter ==
  /\ pc = "calculateExecutionOrder"
  /\ order' = <<>>
  /\ completed' = {}
  /\ remaining' = tasks
  /\ pc' = "while"
  /\ UNCHANGED <<patternVars, entry, analysis, tasks, execVars>>

\* one iteration of the while loop with a non-empty batch
SchedIterate ==
  /\ pc = "while"
  /\ Len(remaining) > 0
  /\ LET batch == Batch(remaining, completed)
     IN /\ Len(batch) # 0
        /\ order' = Append(order, BatchIds(batch))
        /\ completed' = completed \cup Range(BatchIds(batch))
        /\ remaining' = RemoveBatch(remaining, batch)
  /\ UNCHANGED <<patternVars, entry, analysis, tasks, pc, execVars>>

\* mutant: the loop is left without a throw and the tasks of the cycle are dropped
SchedDropCyclic ==
  /\ pc = "while"
  /\ Len(remaining) > 0
  /\ Len(Batch(remaining, completed)) = 0
  /\ pc' = "planned"
  /\ UNCHANGED <<patternVars, entry, analysis, tasks, schedVars, execVars>>

\* throw new Error('Circular dependency detected in tasks')
SchedThrow ==
  /\ pc = "while"
  /\ Len(remaining) > 0
  /\ Len(Batch(remaining, completed)) = 0
  /\ pc' = "thrown"
  /\ UNCHANGED <<patternVars, entry, analysis, tasks, schedVars, execVars>>

\* the loop ends: return order (createPlan returns the plan)
SchedReturn ==
  /\ pc = "while"
  /\ Len(remaining) = 0
  /\ pc' = "planned"
  /\ UNCHANGED <<patternVars, entry, analysis, tasks, schedVars, execVars>>

\* mutant: execute is entered although calculateExecutionOrder threw
ExecEnterAfterThrow ==
  /\ pc \in {"planned", "thrown"}
  /\ batchIdx' = 1
  /\ promise' = [i \in 1..Len(tasks) |-> NoPromise]
  /\ workerResults' = <<>>
  /\ errors' = <<>>
  /\ pc' = "for"
  /\ UNCHANGED <<patternVars, entry, analysis, tasks, schedVars, success>>

\* execute is called with the plan: workerResults = [], errors = []
ExecEnter ==
  /\ pc = "planned"
  /\ batchIdx' = 1
  /\ promise' = [i \in 1..Len(tasks) |-> NoPromise]
  /\ workerResults' = <<>>
  /\ errors' = <<>>
  /\ pc' = "for"
  /\ UNCHANGED <<patternVars, entry, analysis, tasks, schedVars, success>>

\* mutant: the batch is started and not awaited, the loop goes on
DispatchNoAwait ==
  /\ pc = "for"
  /\ batchIdx <= Len(order)
  /\ LET batch == Range(BatchTaskIdx(batchIdx))
     IN \E readThrows \in SUBSET {i \in batch : ReadsFile(tasks[i].type)} :
          promise' = [i \in DOMAIN promise |->
                        IF i \in batch THEN WorkerStart(tasks[i], i \in readThrows)
                        ELSE promise[i]]
  /\ batchIdx' = batchIdx + 1
  /\ UNCHANGED <<patternVars, entry, analysis, tasks, pc, schedVars, workerResults, errors, success>>

\* batchTasks.map(task => this.executeTask(task)): every task of the batch is
\* started and runs to its first await (a failed read is caught on the way)
Dispatch ==
  /\ pc = "for"
  /\ batchIdx <= Len(order)
  /\ LET batch == Range(BatchTaskIdx(batchIdx))
     IN \E readThrows \in SUBSET {i \in batch : ReadsFile(tasks[i].type)} :
          promise' = [i \in DOMAIN promise |->
                        IF i \in batch THEN WorkerStart(tasks[i], i \in readThrows)
                        ELSE promise[i]]
  /\ pc' = "await"
  /\ UNCHANGED <<patternVars, entry, analysis, tasks, schedVars, batchIdx, workerResults,
                 errors, success>>

\* the LLM call of one started task settles and its worker runs to its return
LLMSettle(i) ==
  /\ promise[i].state = "pending"
  /\ \E llm \in LLMOutcomes(tasks[i].type) :
       promise' = [promise EXCEPT ![i] = WorkerResume(tasks[i], llm)]
  /\ UNCHANGED <<patternVars, entry, analysis, tasks, pc, schedVars, batchIdx, workerResults,
                 errors, success>>

\* mutant: a batch with a failed result is run again
JoinRetriesFailed ==
  /\ pc = "await"
  /\ LET idx == BatchTaskIdx(batchIdx)
     IN /\ PromiseAll([k \in DOMAIN idx |-> promise[idx[k]]]) = "fulfilled"
        /\ LET batchResults == [k \in DOMAIN idx |-> promise[idx[k]].value]
           IN IF AllSucceeded(batchResults)
                THEN /\ workerResults' = workerResults \o batchResults
                     /\ errors' = errors \o BatchErrors(batchResults)
                     /\ batchIdx' = batchIdx + 1
                ELSE UNCHANGED <<batchIdx, workerResults, errors>>
        /\ pc' = "for"
  /\ UNCHANGED <<patternVars, entry, analysis, tasks, schedVars, promise, success>>

\* mutant: fail-fast, the loop is left after a batch with a failed result
JoinFailFast ==
  /\ pc = "await"
  /\ LET idx == BatchTaskIdx(batchIdx)
     IN /\ PromiseAll([k \in DOMAIN idx |-> promise[idx[k]]]) = "fulfilled"
        /\ LET batchResults == [k \in DOMAIN idx |-> promise[idx[k]].value]
           IN /\ workerResults' = workerResults \o batchResults
              /\ errors' = errors \o BatchErrors(batchResults)
              /\ batchIdx' = IF AllSucceeded(batchResults)
                               THEN batchIdx + 1 ELSE Len(order) + 1
              /\ pc' = "for"
  /\ UNCHANGED <<patternVars, entry, analysis, tasks, schedVars, promise, success>>

\* await Promise.all(...) resumes: the results and errors of the batch are
\* collected, or execute rejects with the first rejection
Join ==
  /\ pc = "await"
  /\ LET idx == BatchTaskIdx(batchIdx)
         all == PromiseAll([k \in DOMAIN idx |-> promise[idx[k]]])
     IN /\ all # "pending"
        /\ IF all = "rejected"
             THEN /\ pc' = "rejected"
                  /\ UNCHANGED <<batchIdx, workerResults, errors>>
             ELSE LET batchResults == [k \in DOMAIN idx |-> promise[idx[k]].value]
                  IN /\ workerResults' = workerResults \o batchResults
                     /\ errors' = errors \o BatchErrors(batchResults)
                     /\ batchIdx' = batchIdx + 1
                     /\ pc' = "for"
  /\ UNCHANGED <<patternVars, entry, analysis, tasks, schedVars, promise, success>>

\* the for-loop is over: success = workerResults.every(r => r.success), return
ExecReturn ==
  /\ pc = "for"
  /\ batchIdx > Len(order)
  /\ success' = AllSucceeded(workerResults)
  /\ pc' = "returned"
  /\ UNCHANGED <<patternVars, entry, analysis, tasks, schedVars, batchIdx, promise,
                 workerResults, errors>>

Next ==
  \/ CreatePlan
  \/ SchedEnter
  \/ SchedIterate
  \/ SchedThrow
  \/ SchedReturn
  \/ ExecEnter
  \/ Dispatch
  \/ \E i \in DOMAIN promise : LLMSettle(i)
  \/ Join
  \/ ExecReturn

Spec == Init /\ [][Next]_vars

\* a task list scheduled and, when an order is returned, executed, run so
\* that every step that can be taken is taken in the end: the synchronous code
\* runs on and every LLM call settles
NextPlan ==
  \/ SchedEnter
  \/ SchedIterate
  \/ SchedThrow
  \/ SchedReturn
  \/ ExecEnter
  \/ Dispatch
  \/ \E i \in DOMAIN promise : LLMSettle(i)
  \/ Join
  \/ ExecReturn

SpecPlan == InitPlan /\ [][NextPlan]_vars /\ WF_vars(NextPlan)

\* calculateExecutionOrder alone, run to completion (a synchronous loop always
\* takes its next step)
NextSched == SchedEnter \/ SchedIterate \/ SchedThrow \/ SchedReturn

SpecSched == InitPlan /\ [][NextSched]_vars /\ WF_vars(NextSched)

\* ------------------------------------------------------------ ReActAgent.run
InitReAct ==
  /\ OrchIdle
  /\ optimizer = OptimizerIdle
  /\ debate = DebateIdle
  /\ router = RouterIdle
  /\ pipeline = PipelineIdle
  /\ writer = WriterIdle
  /\ \E maxIterations \in 0..MaxIterations : react = ReActEntered(maxIterations)

\* mutant: the loop test is i <= maxIterations
ReActIterateOnceMore ==
  /\ react.pc = "for"
  /\ react.i <= react.maxIterations
  /\ react' = [react EXCEPT !.pc = "getReActResponse"]
  /\ UNCHANGED notReAct

\* for (...; i < this.config.maxIterations; ...): the prompt is built and
\* getReActResponse is called
ReActIterate ==
  /\ react.pc = "for"
  /\ react.i < react.maxIterations
  /\ react' = [react EXCEPT !.pc = "getReActResponse"]
  /\ UNCHANGED notReAct

\* getReActResponse throws (API error, no text block, no JSON): run rejects
ReActResponseFails ==
  /\ react.pc = "getReActResponse"
  /\ react' = [react EXCEPT !.pc = "rejected",
                            !.error = "No JSON found in response",
                            !.llmCalls = @ + 1]
  /\ UNCHANGED notReAct

\* getReActResponse returns the parsed response; execute is called
ReActRespond ==
  /\ react.pc = "getReActResponse"
  /\ \E response \in ReActResponses :
       react' = [react EXCEPT !.pc = "execute", !.response = response,
                              !.llmCalls = @ + 1]
  /\ UNCHANGED notReAct

\* mutant: the step is recorded and the loop goes on after final_answer too
ReActActNoStop ==
  /\ react.pc = "execute"
  /\ IF ~KnownAction(react.response.action)
       THEN react' = [react EXCEPT !.pc = "rejected", !.error = "Unknown action",
                                   !.actCalls = @ + 1]
       ELSE \E tavilyThrows \in (IF react.response.action = "search"
                                   THEN BOOLEAN ELSE {FALSE}) :
              react' = [react EXCEPT
                          !.history = Append(@, ReActStep(react.response,
                               execute(react.response.action,
                                       react.response.actionInput,
                                       react.history, tavilyThrows))),
                          !.actCalls = @ + 1, !.i = @ + 1, !.pc = "for"]
  /\ UNCHANGED notReAct

\* execute settles: an unknown action throws and run rejects; otherwise the
\* step is pushed on history, and run returns on final_answer or goes on to
\* i++ and the loop test
ReActAct ==
  /\ react.pc = "execute"
  /\ IF ~KnownAction(react.response.action)
       THEN react' = [react EXCEPT !.pc = "rejected", !.error = "Unknown action",
                                   !.actCalls = @ + 1]
       ELSE \E tavilyThrows \in (IF react.response.action = "search"
                                   THEN BOOLEAN ELSE {FALSE}) :
              LET observation == execute(react.response.action,
                                         react.response.actionInput,
                                         react.history, tavilyThrows)
                  history == Append(react.history,
                                    ReActStep(react.response, observation))
              IN IF react.response.action = "final_answer"
                   THEN react' = [react EXCEPT
                          !.history = history, !.actCalls = @ + 1,
                          !.result = ReActResult(react.response.actionInput,
                                       ConfidenceOrZero(react.response.confidence),
                                       history, react.i, "final_answer"),
                          !.pc = "returned"]
                   ELSE react' = [react EXCEPT
                          !.history = history, !.actCalls = @ + 1,
                          !.i = @ + 1, !.pc = "for"]
  /\ UNCHANGED notReAct

\* the loop is over: the best-effort result
ReActExhausted ==
  /\ react.pc = "for"
  /\ ~(react.i < react.maxIterations)
  /\ react' = [react EXCEPT
                 !.result = ReActResult("Unable to determine a final answer within the iteration limit.",
                              0, react.history, react.maxIterations,
                              "max_iterations"),
                 !.pc = "returned"]
  /\ UNCHANGED notReAct

NextReAct ==
  \/ ReActIterate
  \/ ReActResponseFails
  \/ ReActRespond
  \/ ReActAct
  \/ ReActExhausted

SpecReAct == InitReAct /\ [][NextReAct]_vars

\* ------------------------------------------------------------ optimizeAPISpec
InitOptimizer ==
  /\ OrchIdle
  /\ react = ReActIdle
  /\ debate = DebateIdle
  /\ router = RouterIdle
  /\ pipeline = PipelineIdle
  /\ writer = WriterIdle
  /\ \E arg \in {<<>>} \cup {<<n>> : n \in 0..MaxOptimizerIterations} :
       optimizer = OptimizerEntered(arg)

\* mutant: the loop test is i < maxIterations
OptLoopTestStrict(i, maxIterations) == i < maxIterations

\* the test of the for-loop: i <= maxIterations
OptLoopTest(i, maxIterations) == i <= maxIterations

\* for (let i = 1; i <= maxIterations; i++): generateOpenAPISpec is called
OptIterate ==
  /\ optimizer.pc = "for"
  /\ OptLoopTest(optimizer.i, optimizer.maxIterations)
  /\ optimizer' = [optimizer EXCEPT !.pc = "generateOpenAPISpec", !.rounds = @ + 1]
  /\ UNCHANGED notOptimizer

\* generateOpenAPISpec throws (API error, reply that is no JSON)
OptGenerateFails ==
  /\ optimizer.pc = "generateOpenAPISpec"
  /\ optimizer' = [optimizer EXCEPT !.pc = "rejected",
                     !.error = "Failed to parse JSON from generator"]
  /\ UNCHANGED notOptimizer

\* currentSpec = generatorResult.spec; validateOpenAPISpec is called, which
\* catches what the parser throws; evaluateOpenAPISpec is called
OptGenerate ==
  /\ optimizer.pc = "generateOpenAPISpec"
  /\ \E spec \in Specs :
       optimizer' = [optimizer EXCEPT !.currentSpec = spec,
                                      !.pc = "evaluateOpenAPISpec"]
  /\ UNCHANGED notOptimizer

\* evaluateOpenAPISpec throws before its structure check (API error, reply
\* that is no JSON)
OptEvaluateFails ==
  /\ optimizer.pc = "evaluateOpenAPISpec"
  /\ optimizer' = [optimizer EXCEPT !.pc = "rejected",
                     !.error = "Unexpected token in JSON"]
  /\ UNCHANGED notOptimizer

\* the evaluator's reply is parsed: an invalid structure throws; otherwise
\* the round is recorded, and the spec is returned as accepted when decision
\* is "accepted", or the loop goes on to i++ and its test
OptEvaluate ==
  /\ optimizer.pc = "evaluateOpenAPISpec"
  /\ \E evaluation \in EvaluatorReplies :
       IF InvalidStructure(evaluation)
         THEN optimizer' = [optimizer EXCEPT !.pc = "rejected",
                 !.error = "Evaluator returned invalid response structure"]
         ELSE LET iterations ==
                    Append(optimizer.iterations,
                           IterationResult(optimizer.i, optimizer.currentSpec,
                             evaluation,
                             validateOpenAPISpec(optimizer.currentSpec).errors))
                  qualityProgression ==
                    Append(optimizer.qualityProgression, evaluation.overallScore)
              IN IF evaluation.decision = "accepted"
                   THEN optimizer' = [optimizer EXCEPT
                          !.iterations = iterations,
                          !.qualityProgression = qualityProgression,
                          !.result = OptimizationResult(optimizer.currentSpec, TRUE,
                                       iterations, qualityProgression, optimizer.i),
                          !.pc = "returned"]
                   ELSE optimizer' = [optimizer EXCEPT
                          !.iterations = iterations,
                          !.qualityProgression = qualityProgression,
                          !.i = @ + 1, !.pc = "for"]
  /\ UNCHANGED notOptimizer

\* max iterations reached without acceptance
OptExhausted ==
  /\ optimizer.pc = "for"
  /\ ~OptLoopTest(optimizer.i, optimizer.maxIterations)
  /\ optimizer' = [optimizer EXCEPT
                     !.result = OptimizationResult(optimizer.currentSpec, FALSE,
                                  optimizer.iterations,
                                  optimizer.qualityProgression,
                                  optimizer.maxIterations),
                     !.pc = "returned"]
  /\ UNCHANGED notOptimizer

NextOptimizer ==
  \/ OptIterate
  \/ OptGenerateFails
  \/ OptGenerate
  \/ OptEvaluateFails
  \/ OptEvaluate
  \/ OptExhausted

SpecOptimizer == InitOptimizer /\ [][NextOptimizer]_vars

\* ------------------------------------------------------------ runDebate
InitDebate ==
  /\ OrchIdle
  /\ react = ReActIdle
  /\ optimizer = OptimizerIdle
  /\ router = RouterIdle
  /\ pipeline = PipelineIdle
  /\ writer = WriterIdle
  /\ \E maxRounds \in 0..MaxDebateRounds : debate = DebateEntered(maxRounds)

\* the call awaited at debate.pc fails (API error, reply that is no JSON)
DebateCallFails ==
  /\ debate.pc \in {"openDebate", "respond", "decideNextAction",
                    "synthesizeRecommendation"}
  /\ debate' = DebateThrows(debate, "Failed to parse JSON response")
  /\ UNCHANGED notDebate

\* openDebate returns: the opening is added to the history, the first speaker
\* and question are set
DebateOpen ==
  /\ debate.pc = "openDebate"
  /\ \E opening \in Openings :
       debate' = [debate EXCEPT
                    !.messages = addMessage(debate, "moderator", "opening"),
                    !.currentSpeaker = opening.firstSpeaker,
                    !.currentQuestion = opening.question,
                    !.pc = "while"]
  /\ UNCHANGED notDebate

\* the test of the while loop; in the loop the debater is looked up (a role
\* that is no debater throws) and asked to respond
DebateLoop ==
  /\ debate.pc = "while"
  /\ IF ~debate.hasConverged /\ debate.currentRound <= debate.maxRounds
       THEN IF debate.currentSpeaker \notin DebaterRoles
              THEN debate' = DebateThrows(debate, "Debater not found for role")
              ELSE debate' = [debate EXCEPT !.pc = "respond"]
       ELSE debate' = [debate EXCEPT !.pc = "synthesizeRecommendation"]
  /\ UNCHANGED notDebate

\* mutant: at the round limit the loop is left with hasConverged as it was
DebateRespondLimitNoFlag ==
  /\ debate.pc = "respond"
  /\ LET messages == addMessage(debate, debate.currentSpeaker, "response")
     IN IF debate.currentRound >= debate.maxRounds
          THEN debate' = [debate EXCEPT !.messages = messages,
                                        !.responses = @ + 1,
                                        !.pc = "synthesizeRecommendation"]
          ELSE debate' = [debate EXCEPT !.messages = messages,
                                        !.responses = @ + 1,
                                        !.pc = "decideNextAction"]
  /\ UNCHANGED notDebate

\* mutant: the max-rounds check after the response is missing
DebateRespondNoLimit ==
  /\ debate.pc = "respond"
  /\ debate' = [debate EXCEPT
                  !.messages = addMessage(debate, debate.currentSpeaker, "response"),
                  !.responses = @ + 1,
                  !.pc = "decideNextAction"]
  /\ UNCHANGED notDebate

\* the debater responds: the response is added to the history; at the round
\* limit hasConverged is set and the loop is left, otherwise the moderator is
\* asked for the next action
DebateRespond ==
  /\ debate.pc = "respond"
  /\ LET messages == addMessage(debate, debate.currentSpeaker, "response")
     IN IF debate.currentRound >= debate.maxRounds
          THEN debate' = [debate EXCEPT !.messages = messages,
                                        !.responses = @ + 1,
                                        !.hasConverged = TRUE,
                                        !.pc = "synthesizeRecommendation"]
          ELSE debate' = [debate EXCEPT !.messages = messages,
                                        !.responses = @ + 1,
                                        !.pc = "decideNextAction"]
  /\ UNCHANGED notDebate

\* decideNextAction returns: the observations are merged; on
\* declare_convergence the loop is left; an ask_speaker without speaker or
\* question throws; otherwise the question is added and the round incremented
DebateDecide ==
  /\ debate.pc = "decideNextAction"
  /\ \E action \in ModeratorActions :
       LET merged == [debate EXCEPT
                        !.pointsOfAgreement =
                           mergeUnique(@, action.observedAgreements),
                        !.pointsOfDisagreement =
                           mergeUnique(@, action.observedDisagreements)]
       IN IF action.type = "declare_convergence"
            THEN debate' = [merged EXCEPT
                              !.hasConverged = TRUE,
                              !.messages = addMessage(debate, "moderator", "convergence"),
                              !.pc = "synthesizeRecommendation"]
            ELSE IF action.nextSpeaker = "undefined" \/ action.question = "undefined"
                   THEN debate' = DebateThrows(merged,
                                    "Moderator must specify next speaker and question")
                   ELSE debate' = [merged EXCEPT
                                     !.currentSpeaker = action.nextSpeaker,
                                     !.currentQuestion = action.question,
                                     !.messages = addMessage(debate, "moderator", "question"),
                                     !.currentRound = @ + 1,
                                     !.pc = "while"]
  /\ UNCHANGED notDebate

\* state.finalRecommendation = synthesis; return state
DebateSynthesize ==
  /\ debate.pc = "synthesizeRecommendation"
  /\ debate' = [debate EXCEPT !.finalRecommendation = "synthesis",
                              !.pc = "returned"]
  /\ UNCHANGED notDebate

NextDebate ==
  \/ DebateCallFails
  \/ DebateOpen
  \/ DebateLoop
  \/ DebateRespond
  \/ DebateDecide
  \/ DebateSynthesize

SpecDebate == InitDebate /\ [][NextDebate]_vars

\* ------------------------------------------------------------ Router.route
InitRouter ==
  /\ OrchIdle
  /\ react = ReActIdle
  /\ optimizer = OptimizerIdle
  /\ debate = DebateIdle
  /\ pipeline = PipelineIdle
  /\ writer = WriterIdle
  /\ router = RouterEntered

\* client.sendMessage rejects in classifyIntent, outside its try block
RouterClassifyFails ==
  /\ router.pc = "classifyIntent"
  /\ router' = [router EXCEPT !.pc = "rejected", !.error = "Anthropic API error"]
  /\ UNCHANGED notRouter

\* classifyIntent returns (the validated reply, or the fallback when the reply
\* is no JSON or does not validate) and route runs to its return or to the
\* call of the handler
RouterClassify ==
  /\ router.pc = "classifyIntent"
  /\ \E parses \in BOOLEAN : \E parsed \in ParsedClassifications :
       LET classification == IF parses THEN validateClassification(parsed)
                             ELSE FallbackClassification
           decision == RouteDecision(classification)
           classified == [router EXCEPT !.classification = classification]
       IN CASE decision = "reject" ->
                 router' = [classified EXCEPT !.response = createRejectionResponse,
                                              !.pc = "returned"]
            [] decision = "clarify" ->
                 router' = [classified EXCEPT
                              !.hasPiiWarning = HasFlag(classification, "pii_request"),
                              !.response = createLowConfidenceResponse,
                              !.pc = "returned"]
            [] decision = "error" ->
                 router' = [classified EXCEPT
                              !.hasPiiWarning = HasFlag(classification, "pii_request"),
                              !.response = createErrorResponse("No handler for intent"),
                              !.pc = "returned"]
            [] OTHER ->
                 router' = [classified EXCEPT
                              !.hasPiiWarning = HasFlag(classification, "pii_request"),
                              !.handled = Append(@, HandlerOf(classification.intent)),
                              !.pc = "handle"]
  /\ UNCHANGED notRouter

\* the reasoning handler awaits client.sendMessage outside its try block
RouterHandleThrows ==
  /\ router.pc = "handle"
  /\ router.classification.intent = "reasoning"
  /\ router' = [router EXCEPT !.pc = "rejected", !.error = "Anthropic API error"]
  /\ UNCHANGED notRouter

\* handler.handle returns, formatResponse, the PII note, return
RouterHandle ==
  /\ router.pc = "handle"
  /\ \E hsuccess \in BOOLEAN :
       router' = [router EXCEPT
                    !.response = RouterResponse(HandlerOf(router.classification.intent),
                                                hsuccess,
                                                IF hsuccess THEN "none" ELSE "handler error",
                                                router.hasPiiWarning /\ hsuccess),
                    !.pc = "returned"]
  /\ UNCHANGED notRouter

NextRouter ==
  \/ RouterClassifyFails
  \/ RouterClassify
  \/ RouterHandleThrows
  \/ RouterHandle

SpecRouter == InitRouter /\ [][NextRouter]_vars

\* ------------------------------------------------------------ CodeReviewPipeline.run
InitPipeline ==
  /\ OrchIdle
  /\ react = ReActIdle
  /\ optimizer = OptimizerIdle
  /\ debate = DebateIdle
  /\ router = RouterIdle
  /\ writer = WriterIdle
  /\ pipeline = PipelineEntered

\* the sendMessage awaited at pipeline.pc rejects: the catch block of run
PipelineCallFails ==
  /\ pipeline.pc \in {"analyzeCode", "proposeSolutions", "generateUpdatedCode",
                      "generateCommitMessage"}
  /\ pipeline' = PipelineReturns(pipeline, PipelineFailure("Anthropic API error"))
  /\ UNCHANGED notPipeline

\* analyzeCode returns; the gate; proposeSolutions builds its prompt (mapping
\* over the four lists of the analysis, a TypeError when one is no array) and
\* sends it
PipelineAnalyze ==
  /\ pipeline.pc = "analyzeCode"
  /\ \E reply \in AnalysisReplies :
       LET a == analyzeCode(reply)
           p == [pipeline EXCEPT !.analysis = <<a>>]
       IN IF Gate(a)
            THEN pipeline' = PipelineReturns(p,
                   PipelineResult(<<a>>, <<>>, <<>>, <<>>, TRUE, <<>>))
          ELSE IF ~a.lists
            THEN pipeline' = PipelineReturns(p,
                   PipelineFailure("Cannot read properties of undefined (reading 'map')"))
          ELSE pipeline' = [p EXCEPT
                              !.sent = Append(@, [step |-> "proposeSolutions",
                                                  inputs |-> <<a>>]),
                              !.pc = "proposeSolutions"]
  /\ UNCHANGED notPipeline

\* proposeSolutions returns; generateUpdatedCode builds its prompt (mapping
\* over solutions.recommendations) and sends it
PipelineSolutions ==
  /\ pipeline.pc = "proposeSolutions"
  /\ \E reply \in SolutionsReplies :
       LET solutions == proposeSolutions(reply)
           p == [pipeline EXCEPT !.solutions = <<solutions>>]
           a0 == pipeline.analysis[1]
       IN IF ~solutions.recommendations
            THEN pipeline' = PipelineReturns(p,
                   PipelineFailure("Cannot read properties of undefined (reading 'map')"))
            ELSE pipeline' = [p EXCEPT
                                !.sent = Append(@, [step |-> "generateUpdatedCode",
                                                    inputs |-> <<a0, solutions>>]),
                                !.pc = "generateUpdatedCode"]
  /\ UNCHANGED notPipeline

\* generateUpdatedCode returns; generateCommitMessage sends its prompt
PipelineUpdate ==
  /\ pipeline.pc = "generateUpdatedCode"
  /\ \E reply \in PlainReplies :
       LET updatedCode == generateUpdatedCode(reply)
       IN pipeline' = [pipeline EXCEPT
                         !.updatedCode = <<updatedCode>>,
                         !.sent = Append(@, [step |-> "generateCommitMessage",
                                             inputs |-> <<updatedCode>>]),
                         !.pc = "generateCommitMessage"]
  /\ UNCHANGED notPipeline

\* generateCommitMessage returns; run returns the full result
PipelineCommit ==
  /\ pipeline.pc = "generateCommitMessage"
  /\ \E reply \in PlainReplies :
       LET commitInfo == generateCommitMessage(reply)
       IN pipeline' = PipelineReturns([pipeline EXCEPT !.commitInfo = <<commitInfo>>],
                        PipelineResult(pipeline.analysis, pipeline.solutions,
                                       pipeline.updatedCode, <<commitInfo>>, TRUE, <<>>))
  /\ UNCHANGED notPipeline

NextPipeline ==
  \/ PipelineCallFails
  \/ PipelineAnalyze
  \/ PipelineSolutions
  \/ PipelineUpdate
  \/ PipelineCommit

SpecPipeline == InitPipeline /\ [][NextPipeline]_vars

\* ------------------------------------------------------------ applyChanges
\* allChanges: changes as the workers propose them (create or modify, with the
\* content the LLM returned, which may be the empty string)
InitWriter ==
  /\ OrchIdle
  /\ react = ReActIdle
  /\ optimizer = OptimizerIdle
  /\ debate = DebateIdle
  /\ router = RouterIdle
  /\ pipeline = PipelineIdle
  /\ \E n \in 0..MaxChanges :
       \E changes \in [1..n -> {FileChange(path, operation, [fence |-> "none", body |-> b]) :
                                  path \in {<<"package.json">>, <<"src", "tracing.ts">>},
                                  operation \in {"create", "modify"},
                                  b \in {"code", ""}}] :
         writer = WriterEntered(changes)

\* one iteration of the for-loop: a create or modify change with content is
\* written, any other change is passed over
WriterWrite ==
  /\ writer.pc = "for"
  /\ writer.i <= Len(writer.changes)
  /\ LET change == writer.changes[writer.i]
     IN IF change.operation \in {"create", "modify"} /\ change.newContent.body # ""
          THEN writer' = [writer EXCEPT !.written = Append(@, change.path), !.i = @ + 1]
          ELSE writer' = [writer EXCEPT !.i = @ + 1]
  /\ UNCHANGED notWriter

\* FileSystemUtil.writeFile throws (mkdirSync or writeFileSync): applyChanges
\* rejects, the catch block of main logs the error and calls process.exit(1)
WriterWriteFails ==
  /\ writer.pc = "for"
  /\ writer.i <= Len(writer.changes)
  /\ LET change == writer.changes[writer.i]
     IN change.operation \in {"create", "modify"} /\ change.newContent.body # ""
  /\ writer' = [writer EXCEPT !.pc = "exit", !.error = "EACCES: permission denied"]
  /\ UNCHANGED notWriter

\* the for-loop is over: applyChanges returns
WriterDone ==
  /\ writer.pc = "for"
  /\ writer.i > Len(writer.changes)
  /\ writer' = [writer EXCEPT !.pc = "done"]
  /\ UNCHANGED notWriter

NextWriter == WriterWrite \/ WriterWriteFails \/ WriterDone

SpecWriter == InitWriter /\ [][NextWriter]_vars

\* ================================================================ claims
\* ------------------------------------------------------------ vocabulary
TaskIds(ts) == {ts[i].id : i \in DOMAIN ts}

UniqueIds(ts) == \A i, j \in DOMAIN ts : ts[i].id = ts[j].id => i = j

NoDangling(ts) == \A i \in DOMAIN ts : ts[i].dependencies \subseteq TaskIds(ts)

\* indices of the tasks some task of S lists as a prerequisite
Prereqs(ts, S) == {j \in DOMAIN ts : \E i \in S : ts[j].id \in ts[i].dependencies}

RECURSIVE PrereqClosure(_, _, _)
PrereqClosure(ts, S, n) ==
  IF n = 0 THEN S ELSE PrereqClosure(ts, S \cup Prereqs(ts, S), n - 1)

\* some task is its own prerequisite through one or more steps
Cyclic(ts) ==
  \E i \in DOMAIN ts : i \in PrereqClosure(ts, Prereqs(ts, {i}), Len(ts))

NonCyclicTaskSet(ts) == UniqueIds(ts) /\ NoDangling(ts) /\ ~Cyclic(ts)

\* the indices of the batches of ord that hold id
BatchesOf(ord, id) == {b \in DOMAIN ord : \E k \in DOMAIN ord[b] : ord[b][k] = id}

\* execute has been entered (the promise table is laid out)
Executing == pc \in {"for", "await", "returned", "rejected"}

Settled(p) == p.state \in {"fulfilled", "rejected"}

\* every WorkerResult that exists: the values of the fulfilled promises and
\* the collected results
AllResults ==
  {promise[i].value : i \in {j \in DOMAIN promise : promise[j].state = "fulfilled"}}
  \cup Range(workerResults)

FailedResults(results) == SelectSeq(results, LAMBDA r : r.success = FALSE)

\* C1: for a non-cyclic task set (unique ids, no prerequisite outside the set)
\* calculateExecutionOrder does not throw, and the order it returns holds every
\* task id in exactly one batch, once.
C1_Permutation ==
  (pc \in {"thrown", "planned"} /\ NonCyclicTaskSet(tasks)) =>
    /\ pc # "thrown"
    /\ Len(Flatten(order)) = Len(tasks)
    /\ \A i \in DOMAIN tasks : Cardinality(BatchesOf(order, tasks[i].id)) = 1
    /\ Range(Flatten(order)) = TaskIds(tasks)

C1_Witness ==
  /\ entry = "plan"
  /\ pc = "planned"
  /\ NonCyclicTaskSet(tasks)
  /\ Len(tasks) = 3
  /\ Len(order) = 2

\* C2: in a returned order every prerequisite of a task lies in a batch of
\* strictly smaller index than the task's own batch.
C2_PrereqsEarlier ==
  pc = "planned" =>
    \A i \in DOMAIN tasks : \A d \in tasks[i].dependencies :
      /\ BatchesOf(order, d) # {}
      /\ \A bt \in BatchesOf(order, tasks[i].id) : \A bd \in BatchesOf(order, d) : bd < bt

C2_Witness ==
  /\ entry = "plan"
  /\ pc = "planned"
  /\ Len(order) = 3
  /\ \E i \in DOMAIN tasks : Cardinality(tasks[i].dependencies) = 2

\* C3: on a task set with a dependency cycle calculateExecutionOrder ends by
\* throwing 'Circular dependency detected in tasks': it never returns an order
\* and it does not loop for ever.
C3_CycleThrows ==
  /\ [](Cyclic(tasks) => pc # "planned")
  /\ (Cyclic(tasks) ~> pc = "thrown")

\* a two-task cycle beside a task that was batched before the throw
C3_Witness ==
  /\ pc = "thrown"
  /\ Cyclic(tasks)
  /\ Len(order) = 1
  /\ Len(remaining) = 2

\* C4: no task of a later batch is started before every task of each earlier
\* batch has settled.
C4_Barrier ==
  Executing =>
    \A b \in DOMAIN order :
      (b + 1 \in DOMAIN order
         /\ \E i \in Range(BatchTaskIdx(b + 1)) : promise[i].state # "none")
        => \A j \in Range(BatchTaskIdx(b)) : Settled(promise[j])

\* the second batch awaits two workers, one of which has settled
C4_Witness ==
  /\ pc = "await"
  /\ batchIdx = 2
  /\ \E i, j \in Range(BatchTaskIdx(2)) :
       promise[i].state = "pending" /\ promise[j].state = "fulfilled"

\* C5: execute never rejects, and when it returns after some worker failed,
\* every task of every batch has its result (the failed task's siblings and
\* the tasks of later batches included), success is false and the failed
\* task's error strings are in errors.
C5_NoFailFast ==
  /\ pc # "rejected"
  /\ (pc = "returned" /\ \E k \in DOMAIN workerResults : ~workerResults[k].success)
       => /\ \A i \in DOMAIN tasks :
               \E k \in DOMAIN workerResults : workerResults[k].taskId = tasks[i].id
          /\ Len(workerResults) = Len(tasks)
          /\ success = FALSE
          /\ \A k \in DOMAIN workerResults :
               ~workerResults[k].success =>
                 /\ workerResults[k].errors # <<>>
                 /\ Range(workerResults[k].errors) \subseteq Range(errors)

\* a task of the first batch failed and a task depending on it ran afterwards
C5_Witness ==
  /\ pc = "returned"
  /\ Len(order) >= 2
  /\ ~workerResults[1].success
  /\ workerResults[Len(workerResults)].success
  /\ workerResults[1].taskId \in
       tasks[CHOOSE i \in DOMAIN tasks :
               tasks[i].id = workerResults[Len(workerResults)].taskId].dependencies

\* C6: on return success is true iff every worker result succeeded, and errors
\* is the concatenation, in result order, of the errors of the failed results.
C6_Aggregate ==
  pc = "returned" =>
    /\ success = (\A k \in DOMAIN workerResults : workerResults[k].success = TRUE)
    /\ LET failed == FailedResults(workerResults)
       IN errors = Flatten([k \in DOMAIN failed |-> failed[k].errors])

\* two failures and a success were aggregated
C6_Witness ==
  /\ pc = "returned"
  /\ Len(errors) = 2
  /\ \E k \in DOMAIN workerResults : workerResults[k].success

\* C7: a worker's execute never rejects: a failed read, a rejected LLM call and
\* unparsable JSON each end as a fulfilled WorkerResult with success = false
\* for the task's id, for the three worker classes.
C7_WorkerNeverThrows ==
  /\ pc # "rejected"
  /\ \A i \in DOMAIN promise :
       /\ promise[i].state # "rejected"
       /\ promise[i].state = "fulfilled" => promise[i].value.taskId = tasks[i].id
  /\ pc = "planned" => \A i \in DOMAIN tasks :
       /\ ReadsFile(tasks[i].type) =>
            LET p == WorkerStart(tasks[i], TRUE)
            IN p.state = "fulfilled" /\ ~p.value.success /\ p.value.taskId = tasks[i].id
       /\ \A llm \in LLMOutcomes(tasks[i].type) :
            LET p == WorkerResume(tasks[i], llm)
            IN /\ p.state = "fulfilled"
               /\ p.value.taskId = tasks[i].id
               /\ (llm.threw \/ (WorkerClass(tasks[i].type) = "DependencyWorker"
                                  /\ llm.content.body # "json"))
                    => ~p.value.success

\* the three worker classes have each returned a failed result
C7_Witness ==
  /\ pc = "returned"
  /\ \A c \in {"DependencyWorker", "ConfigWorker", "FileInstrumentationWorker"} :
       \E k \in DOMAIN workerResults :
         /\ WorkerClass(workerResults[k].workerType) = c
         /\ ~workerResults[k].success

\* C8: a WorkerResult with success = false has a non-empty errors list and no
\* changes; one with success = true carries its change and an empty errors list.
C8_ResultShape ==
  \A r \in AllResults :
    /\ ~r.success => (Len(r.errors) > 0 /\ Len(r.changes) = 0)
    /\ r.success => (Len(r.changes) > 0 /\ Len(r.errors) = 0)

C8_Witness ==
  /\ pc = "returned"
  /\ \E r \in AllResults : r.success
  /\ \E r \in AllResults : ~r.success

\* createPlan has returned its plan to main()
PlanBuilt == entry = "main" /\ pc = "planned"

TasksOfType(ts, type) == {i \in DOMAIN ts : ts[i].type = type}

\* C9: createPlan emits exactly one dependency task, with no prerequisites,
\* when packages are missing; it emits none when no package is missing, and
\* the config task then has no prerequisites.
C9_DependencyTask ==
  PlanBuilt =>
    IF Len(analysis.missing) > 0
      THEN /\ Cardinality(TasksOfType(tasks, "dependency")) = 1
           /\ \A i \in TasksOfType(tasks, "dependency") : tasks[i].dependencies = {}
      ELSE /\ TasksOfType(tasks, "dependency") = {}
           /\ \A i \in TasksOfType(tasks, "config") : tasks[i].dependencies = {}

C9_Witness ==
  /\ PlanBuilt
  /\ Len(analysis.missing) = 0
  /\ Len(tasks) = 3

\* C10: createPlan emits exactly one config task, whose prerequisites are the
\* ids of the dependency tasks emitted before it.
C10_ConfigTask ==
  PlanBuilt =>
    /\ Cardinality(TasksOfType(tasks, "config")) = 1
    /\ \A c \in TasksOfType(tasks, "config") :
         tasks[c].dependencies =
           {tasks[j].id : j \in {k \in TasksOfType(tasks, "dependency") : k < c}}

C10_Witness ==
  /\ PlanBuilt
  /\ Len(analysis.missing) > 0
  /\ \E c \in TasksOfType(tasks, "config") : Cardinality(tasks[c].dependencies) = 1

\* the categories the words of a file's role and path stand for
CategoriesOf(file) ==
  CASE file.type = "route" -> {"http"}
    [] file.type = "service" -> {"service"}
    [] file.type = "utility" ->
         {c \in {"database", "cache"} : Includes(file.path, c)}
           \cup (IF Includes(file.path, "external") \/ Includes(file.path, "api")
                   THEN {"external-api"} ELSE {})
    [] OTHER -> {}

MappableFiles(a) == SelectSeq(a.files, LAMBDA f : CategoriesOf(f) # {})

FileTasks(ts) == SelectSeq(ts, LAMBDA t : t.type \notin {"dependency", "config"})

ConfigIds(ts) == {ts[i].id : i \in TasksOfType(ts, "config")}

\* C11: createPlan emits, in file order, exactly one file task per file whose
\* role maps to a category, of that category, aimed at that file and with the
\* config task id as its sole prerequisite; any other file yields no task and
\* no error; the plan holds (1 if packages are missing) + 1 + (number of
\* mappable files) tasks.
C11_FileTasks ==
  /\ entry = "main" => pc # "thrown"
  /\ PlanBuilt =>
       LET mappable == MappableFiles(analysis)
           fileTasks == FileTasks(tasks)
       IN /\ Len(fileTasks) = Len(mappable)
          /\ \A k \in DOMAIN fileTasks :
               /\ k \in DOMAIN mappable
               /\ fileTasks[k].targetFile = mappable[k].path
               /\ fileTasks[k].type \in CategoriesOf(mappable[k])
               /\ Cardinality(fileTasks[k].dependencies) = 1
               /\ fileTasks[k].dependencies = ConfigIds(tasks)
          /\ Len(tasks) = (IF Len(analysis.missing) > 0 THEN 1 ELSE 0) + 1
                            + Len(mappable)

C11_Witness ==
  /\ PlanBuilt
  /\ Len(analysis.files) = 2
  /\ Len(MappableFiles(analysis)) = 1
  /\ Len(FileTasks(tasks)) = 1
  /\ \E k \in DOMAIN analysis.files : analysis.files[k].type = "middleware"

\* the batches the plan of createPlan is to have, read off its task list
ExpectedOrder(ts) ==
  LET batchOf(sel) == IF sel = <<>> THEN <<>> ELSE <<BatchIds(sel)>>
  IN batchOf(SelectSeq(ts, LAMBDA t : t.type = "dependency"))
       \o batchOf(SelectSeq(ts, LAMBDA t : t.type = "config"))
       \o batchOf(FileTasks(ts))

\* C12: the execution order of a plan of createPlan is: a batch holding only
\* the dependency task (present iff packages are missing), a batch holding
\* only the config task, and one batch holding all the file tasks (present
\* iff a file is mappable).
C12_ThreeBatches ==
  PlanBuilt =>
    LET hasDep == Len(analysis.missing) > 0
        hasFiles == Len(MappableFiles(analysis)) > 0
    IN /\ order = ExpectedOrder(tasks)
       /\ Len(order) = (IF hasDep THEN 1 ELSE 0) + 1 + (IF hasFiles THEN 1 ELSE 0)
       /\ hasDep => Len(order[1]) = 1 /\ order[1][1][1] = "dependency"
       /\ LET c == IF hasDep THEN 2 ELSE 1
          IN /\ Len(order[c]) = 1
             /\ order[c][1][1] = "config"
             /\ hasFiles => Len(order[c + 1]) = Len(MappableFiles(analysis))

C12_Witness ==
  /\ PlanBuilt
  /\ Len(analysis.missing) > 0
  /\ Len(order) = 3
  /\ Len(order[3]) = 2

\* an analysis with no missing package and one utility file
OneUtilityFile ==
  /\ Len(analysis.missing) = 0
  /\ Len(analysis.files) = 1
  /\ analysis.files[1].type = "utility"

CachePlan ==
  /\ Len(tasks) = 2
  /\ tasks[1].type = "config"
  /\ tasks[2].type = "cache"
  /\ tasks[2].dependencies = {tasks[1].id}
  /\ Len(order) = 2

\* C13 as stated: with no missing package and one utility file whose path
\* contains "cache", whatever else it contains, the plan is the config task
\* and a cache task in 2 batches, the cache task waiting on the config task.
C13_Original ==
  (PlanBuilt /\ OneUtilityFile /\ Includes(analysis.files[1].path, "cache"))
    => CachePlan

\* C13 amended: the same for a path that contains "cache" and not "database";
\* a path that contains both gives a database task in the place of the cache
\* task.
C13_CacheNotDatabase ==
  (PlanBuilt /\ OneUtilityFile /\ Includes(analysis.files[1].path, "cache"))
    => IF Includes(analysis.files[1].path, "database")
         THEN /\ Len(tasks) = 2
              /\ tasks[2].type = "database"
              /\ tasks[2].dependencies = {tasks[1].id}
              /\ Len(order) = 2
         ELSE CachePlan

C13_Witness ==
  /\ PlanBuilt
  /\ OneUtilityFile
  /\ Includes(analysis.files[1].path, "cache")
  /\ ~Includes(analysis.files[1].path, "database")
  /\ CachePlan

\* ---------------------------------------------------------- ReActAgent.run
ReActOver == react.pc \in {"returned", "rejected"}

\* no step of the run has chosen final_answer
NoFinalAnswerChosen ==
  /\ \A k \in DOMAIN react.history : react.history[k].action # "final_answer"
  /\ react.response.action # "final_answer"

MaxIterationsResult ==
  /\ react.pc = "returned"
  /\ react.result.stoppedReason = "max_iterations"
  /\ react.result.confidence = 0
  /\ Len(react.result.history) = react.maxIterations
  /\ react.actCalls = react.maxIterations

C16_FinalAnswerStops ==
  \A k \in DOMAIN react.history :
    react.history[k].action = "final_answer" =>
      /\ k = Len(react.history)
      /\ react.pc = "returned"
      /\ react.result.stoppedReason = "final_answer"
      /\ react.result.answer = react.history[k].actionInput
      /\ react.result.history = react.history
      /\ react.llmCalls = k
      /\ react.actCalls = k

C16_Witness ==
  /\ react.pc = "returned"
  /\ react.result.stoppedReason = "final_answer"
  /\ Len(react.history) = 2
  /\ Len(react.history) < react.maxIterations

\* C17: the iterations field of the result equals the number of steps
\* executed, the length of history, whichever way the run stops.
C17_IterationsIsSteps ==
  react.pc = "returned" => react.result.iterations = Len(react.result.history)

\* ---------------------------------------------------------- optimizeAPISpec
OptimizerOver == optimizer.pc \in {"returned", "rejected"}

\* every round begun has had its evaluation return, with decision 'rejected'
EveryEvaluationRejected ==
  /\ Len(optimizer.iterations) = optimizer.rounds
  /\ \A k \in DOMAIN optimizer.iterations :
       optimizer.iterations[k].evaluation.decision = "rejected"

C19_AcceptedMeetsThreshold ==
  (optimizer.pc = "returned" /\ optimizer.result.accepted) =>
    LET last == optimizer.result.iterations[Len(optimizer.result.iterations)]
    IN /\ last.evaluation.overallScore >= AcceptanceThreshold
       /\ last.evaluation.criticalIssues = <<>>

\* ---------------------------------------------------------------- runDebate
DebateOver == debate.pc \in {"returned", "rejected"}

RoundLimit ==
  debate.maxRounds >= 1 =>
    /\ debate.responses <= debate.maxRounds
    /\ debate.currentRound <= debate.maxRounds

SynthesisStored ==
  debate.pc = "returned" /\ debate.finalRecommendation = "synthesis"

\* C20 as stated: for maxRounds >= 1 runDebate obtains at most maxRounds
\* debater responses and currentRound never exceeds maxRounds, and every run,
\* even read as a run in which no call to the moderator or a debater fails,
\* ends with the moderator's synthesis stored in finalRecommendation.
C20_Original ==
  /\ RoundLimit
  /\ (DebateOver /\ debate.error # "Failed to parse JSON response")
       => SynthesisStored

\* C20 amended: for maxRounds >= 1 runDebate obtains at most maxRounds
\* debater responses and currentRound never exceeds maxRounds; the loop is
\* left for the synthesis only on convergence or at the round limit, and every
\* run that returns has the moderator's synthesis in finalRecommendation;
\* the run throws instead when a call fails, when the speaker named by the
\* moderator is no debater, or when the moderator asks on without naming a
\* next speaker and a question.
C20_RoundLimitAndSynthesis ==
  /\ RoundLimit
  /\ debate.pc \in {"synthesizeRecommendation", "returned"} =>
       debate.hasConverged \/ debate.currentRound > debate.maxRounds
  /\ debate.pc = "returned" => SynthesisStored
  /\ debate.pc # "returned" => debate.finalRecommendation = "undefined"
  /\ debate.pc = "rejected" =>
       debate.error \in {"Failed to parse JSON response",
                         "Debater not found for role",
                         "Moderator must specify next speaker and question"}

C20_Witness ==
  /\ SynthesisStored
  /\ debate.maxRounds >= 2
  /\ debate.responses = debate.maxRounds
  /\ debate.currentRound = debate.maxRounds

\* ------------------------------------------------------------ batches
IdsBefore(ord, b) == UNION {Range(ord[c]) : c \in 1..(b - 1)}

\* the tasks of ts with ids in S, in the order of ts
TasksIn(ts, S) == SelectSeq(ts, LAMBDA t : t.id \in S)

\* the latest batch holding a prerequisite of t, 0 when t has none
LatestPrereqBatch(ord, t) ==
  LET bs == UNION {BatchesOf(ord, dep) : dep \in t.dependencies}
  IN IF bs = {} THEN 0 ELSE CHOOSE b \in bs : \A c \in bs : c <= b

\* C23: every batch calculateExecutionOrder computes is maximal: batch k holds
\* exactly the tasks not in an earlier batch whose prerequisites all lie in
\* earlier batches, in input-list order; in a returned order a task sits in the
\* batch right after the latest batch of its prerequisites (the first batch
\* when it has none).
C23_BatchesMaximal ==
  pc \in {"planned", "thrown"} =>
    /\ \A b \in DOMAIN order :
         order[b] = BatchIds(SelectSeq(tasks, LAMBDA t :
                       /\ t.id \notin IdsBefore(order, b)
                       /\ t.dependencies \subseteq IdsBefore(order, b)))
    /\ pc = "planned" =>
         \A i \in DOMAIN tasks :
           BatchesOf(order, tasks[i].id) = {LatestPrereqBatch(order, tasks[i]) + 1}

\* a returned order whose second batch holds two tasks
C23_Witness ==
  /\ entry = "plan"
  /\ pc = "planned"
  /\ Len(order) = 2
  /\ Len(order[1]) = 1
  /\ Len(order[2]) = 2

\* C24: when calculateExecutionOrder throws on a cycle nothing is executed:
\* execute is entered only after an order was returned, hence never for a task
\* list with a cycle, and after the throw no promise is laid out and no worker
\* result exists, for the tasks of the cycle and for every other task.
C24_CycleAbortsBeforeExecute ==
  /\ pc = "thrown" => (promise = <<>> /\ workerResults = <<>> /\ errors = <<>>)
  /\ (pc = "for" /\ batchIdx = 1) => ~Cyclic(tasks)
  /\ Executing => Len(promise) = Len(tasks) /\ Range(Flatten(order)) = TaskIds(tasks)

\* a task outside the cycle was batched, the throw followed, nothing has run
C24_Witness ==
  /\ pc = "thrown"
  /\ Cyclic(tasks)
  /\ Len(order) = 1
  /\ Len(order[1]) = 1
  /\ Len(tasks) = 3
  /\ promise = <<>>

\* ------------------------------------------------------------ results order
ResultIds(results) == [k \in DOMAIN results |-> results[k].taskId]

\* the batches whose results have been collected
Collected == 1..(IF batchIdx - 1 < Len(order) THEN batchIdx - 1 ELSE Len(order))

\* C25: workerResults is the concatenation, in batch order, of the results of
\* the collected batches, each batch in the order of its tasks in plan.tasks,
\* whatever the order in which the worker calls settled.
C25_ResultsInSubmissionOrder ==
  pc \in {"for", "await", "returned"} =>
    ResultIds(workerResults) =
      Flatten([b \in Collected |-> BatchIds(TasksIn(tasks, Range(order[b])))])

\* two tasks of the second batch, the later one settled first, the first
\* batch already collected
C25_Witness ==
  /\ pc = "await"
  /\ batchIdx = 2
  /\ Len(workerResults) = 1
  /\ \E i, j \in DOMAIN tasks :
       /\ i < j
       /\ tasks[i].id \in Range(order[2])
       /\ tasks[j].id \in Range(order[2])
       /\ promise[i].state = "pending"
       /\ promise[j].state = "fulfilled"

\* C27: in a plan built by createPlan the ids are pairwise distinct, the n-th
\* task emitted carries the number n, and every prerequisite id is the id of a
\* task emitted earlier.
C27_IdsCountUp ==
  (entry = "main" /\ pc \in {"calculateExecutionOrder", "planned"}) =>
    /\ UniqueIds(tasks)
    /\ \A i \in DOMAIN tasks :
         /\ tasks[i].id = TaskId(tasks[i].type, i)
         /\ \A dep \in tasks[i].dependencies :
              \E j \in 1..(i - 1) : tasks[j].id = dep

\* a dependency task, the config task and two file tasks
C27_Witness ==
  /\ PlanBuilt
  /\ Len(tasks) = 4
  /\ tasks[1].type = "dependency"
  /\ tasks[4].id[2] = 4
  /\ tasks[4].dependencies = {tasks[2].id}

\* ------------------------------------------------------------ dangling ids
\* the tasks that list an id of no task, and the tasks depending on them
Blocked(ts) ==
  {i \in DOMAIN ts : \E j \in PrereqClosure(ts, {i}, Len(ts)) :
                       ~(ts[j].dependencies \subseteq TaskIds(ts))}

DanglingNoCycle(ts) == ~NoDangling(ts) /\ ~Cyclic(ts)

\* C29: on a task list with a prerequisite id of no task, and no cycle,
\* calculateExecutionOrder never batches a task that depends on that id, never
\* returns an order, and ends by throwing once every other task is batched.
C29_DanglingThrows ==
  /\ [](DanglingNoCycle(tasks) =>
          /\ pc # "planned"
          /\ Range(Flatten(order)) \cap {tasks[i].id : i \in Blocked(tasks)} = {})
  /\ (DanglingNoCycle(tasks) ~>
        /\ pc = "thrown"
        /\ Range(Flatten(order)) = {tasks[i].id : i \in DOMAIN tasks \ Blocked(tasks)})

\* the free task was batched, the task listing the id of no task was not
C29_Witness ==
  /\ pc = "thrown"
  /\ DanglingNoCycle(tasks)
  /\ Len(tasks) = 2
  /\ Len(order) = 1
  /\ Cardinality(Blocked(tasks)) = 1

\* ------------------------------------------------------------ execute, live
BatchStarted(b) == \A k \in DOMAIN order[b] :
                     \E i \in DOMAIN tasks :
                       tasks[i].id = order[b][k] /\ promise[i].state # "none"

BatchUntouched(b) == \A i \in DOMAIN promise :
                       tasks[i].id \in Range(order[b]) => promise[i].state = "none"

\* C26: every task of a batch is started before any is awaited; the batches
\* are run once each in index order (a batch is started with none of its
\* tasks started before, and the index moves on by one when the batch has
\* settled); and once entered, execute reaches its return with every batch
\* collected, whatever tasks failed.
C26_ExecuteRunsEveryBatchOnce ==
  /\ [](pc = "await" => BatchStarted(batchIdx))
  /\ [][(pc = "for" /\ pc' = "await") =>
          (batchIdx' = batchIdx /\ BatchUntouched(batchIdx)
           /\ \A b \in 1..(batchIdx - 1) : BatchStarted(b))]_vars
  /\ [][batchIdx' # batchIdx =>
          (pc = "await" /\ pc' = "for" /\ batchIdx' = batchIdx + 1
           /\ Len(workerResults') = Len(workerResults) + Len(order[batchIdx]))]_vars
  /\ (pc = "for" ~> (pc = "returned" /\ batchIdx = Len(order) + 1
                     /\ Len(workerResults) = Len(tasks)))

\* execute has returned after three batches, one of them with a failed task
C26_Witness ==
  /\ pc = "returned"
  /\ Len(order) = 3
  /\ batchIdx = 4
  /\ ~success

\* ------------------------------------------------------------ hasConverged
ConvergenceDeclared(d) ==
  \E k \in DOMAIN d.messages : d.messages[k].content = "convergence"

LastMessage(d) == d.messages[Len(d.messages)]

\* C30: for maxRounds >= 1 the state runDebate returns has hasConverged = true,
\* and so has the 'converged' statistic, whether the moderator declared
\* convergence (its convergence message is the last message) or the round
\* limit was reached (no convergence message exists and the last message is a
\* debater's response, said in round maxRounds).
C30_ReturnedIsConverged ==
  (debate.pc = "returned" /\ debate.maxRounds >= 1) =>
    /\ debate.hasConverged
    /\ getDebateStats(debate).converged
    /\ IF ConvergenceDeclared(debate)
         THEN /\ LastMessage(debate).speaker = "moderator"
              /\ LastMessage(debate).content = "convergence"
              /\ debate.currentRound < debate.maxRounds
         ELSE /\ LastMessage(debate).speaker \in DebaterRoles
              /\ LastMessage(debate).content = "response"
              /\ LastMessage(debate).roundNumber = debate.maxRounds
              /\ getDebateStats(debate).totalRounds = debate.maxRounds

\* the round limit ended the debate: no convergence message, the flag is set
C30_Witness ==
  /\ debate.pc = "returned"
  /\ debate.maxRounds = 2
  /\ ~ConvergenceDeclared(debate)
  /\ debate.hasConverged
  /\ LastMessage(debate).content = "response"

\* ------------------------------------------------------------ routing
\* the classification carries a critical safety flag, or the bulk_operation
\* flag together with requiresConfirmation
Flagged(c) ==
  /\ c.safetyFlags # <<>>
  /\ \/ c.safetyFlags[1] \cap CriticalFlags # {}
     \/ ("bulk_operation" \in c.safetyFlags[1] /\ c.requiresConfirmation = <<TRUE>>)

Classified == router.pc \in {"handle", "returned"}

\* C21: route calls a handler only for a classification that is not flagged
\* and has confidence at least 0.6, and calls it once; the safety check comes
\* first: a flagged classification is answered with the security rejection
\* whatever its confidence, an unflagged one with confidence below 0.6 with the
\* clarification response of success=false, and in both cases no handler is
\* called.
C21_SafetyThenConfidence ==
  LET c == router.classification
  IN /\ router.handled # <<>> =>
          /\ ~Flagged(c)
          /\ c.confidence >= ConfidenceThreshold
          /\ router.handled = <<HandlerOf(c.intent)>>
     /\ (Classified /\ Flagged(c)) =>
          /\ router.pc = "returned"
          /\ router.response.handler = "Router (Security)"
          /\ router.response.success = FALSE
          /\ router.handled = <<>>
     /\ (Classified /\ ~Flagged(c) /\ c.confidence < ConfidenceThreshold) =>
          /\ router.pc = "returned"
          /\ router.response.handler = "Router (Clarification)"
          /\ router.response.success = FALSE
          /\ router.handled = <<>>

\* a flagged classification of confidence below 0.6 got the security rejection
C21_Witness ==
  /\ router.pc = "returned"
  /\ Flagged(router.classification)
  /\ router.classification.confidence = 59
  /\ router.response = createRejectionResponse
  /\ router.handled = <<>>

\* ------------------------------------------------------------ prompt chain
StepOrder ==
  <<"analyzeCode", "proposeSolutions", "generateUpdatedCode", "generateCommitMessage">>

\* the steps whose prompts were sent are the first steps of StepOrder, once each
SentInOrder ==
  /\ Len(pipeline.sent) <= Len(StepOrder)
  /\ \A k \in DOMAIN pipeline.sent : pipeline.sent[k].step = StepOrder[k]

\* each prompt sent was built from the outputs of the steps before it
SentFromPrevious ==
  /\ Len(pipeline.sent) >= 2 =>
       pipeline.sent[2].inputs = pipeline.analysis
  /\ Len(pipeline.sent) >= 3 =>
       pipeline.sent[3].inputs = pipeline.analysis \o pipeline.solutions
  /\ Len(pipeline.sent) >= 4 =>
       pipeline.sent[4].inputs = pipeline.updatedCode

OnlyAnalysis ==
  /\ pipeline.result.success
  /\ pipeline.result.analysis = pipeline.analysis
  /\ pipeline.result.proposedSolutions = <<>>
  /\ pipeline.result.updatedCode = <<>>
  /\ pipeline.result.commitInfo = <<>>
  /\ Len(pipeline.sent) = 1

FullResult ==
  /\ pipeline.result.success
  /\ pipeline.result.analysis = pipeline.analysis
  /\ pipeline.result.proposedSolutions = pipeline.solutions
  /\ pipeline.result.updatedCode = pipeline.updatedCode
  /\ pipeline.result.commitInfo = pipeline.commitInfo
  /\ pipeline.result.commitInfo # <<>>
  /\ Len(pipeline.sent) = 4

Analyzed == pipeline.analysis # <<>>

\* C22 as stated, read as a statement about the runs in which no LLM call
\* fails: a run whose analysis has hasIssues=false returns success=true with
\* only the analysis after one LLM call; a run whose analysis has hasIssues=true
\* runs solutions, updated code and commit message once each in that order,
\* each on the previous output.
C22_Original ==
  (pipeline.pc = "returned" /\ Analyzed
   /\ pipeline.result.error # <<"Anthropic API error">>) =>
    IF ~pipeline.analysis[1].hasIssues
      THEN OnlyAnalysis
      ELSE SentInOrder /\ SentFromPrevious /\ FullResult

\* C22 amended: the gate follows the analysis: with hasIssues=false run returns
\* success=true with only the analysis after one LLM call; with hasIssues=true
\* the steps solutions, updated code, commit message are run in that order, at
\* most once each, each on the outputs before it, and all three exactly when
\* run returns success=true; when a step throws (a rejected LLM call, or a
\* reply in which a list the next prompt maps over is missing) run returns
\* success=false with an empty analysis and the error, and no later step runs.
C22_GateThenChain ==
  /\ SentInOrder
  /\ SentFromPrevious
  /\ Len(pipeline.sent) >= 2 => pipeline.analysis[1].hasIssues
  /\ pipeline.pc = "returned" =>
       /\ (Analyzed /\ ~pipeline.analysis[1].hasIssues) => OnlyAnalysis
       /\ (Analyzed /\ pipeline.analysis[1].hasIssues /\ pipeline.result.success)
            => FullResult
       /\ ~pipeline.result.success =>
            /\ pipeline.result.analysis = <<"{}">>
            /\ pipeline.result.error # <<>>
            /\ pipeline.result.proposedSolutions = <<>>
            /\ pipeline.result.commitInfo = <<>>
            /\ pipeline.commitInfo = <<>>

\* the four steps ran, the last two on fallback outputs
C22_Witness ==
  /\ pipeline.pc = "returned"
  /\ FullResult
  /\ pipeline.analysis[1].hasIssues
  /\ pipeline.solutions[1].summary = "Error parsing response"
  /\ pipeline.updatedCode[1].updatedContent = "updated_code"

\* ------------------------------------------------------------ write errors
Writable(change) ==
  change.operation \in {"create", "modify"} /\ change.newContent.body # ""

\* C28: when the changes are applied, a failure to write one change does not
\* keep the remaining changes from being written: when applyChanges is over,
\* with or without a write error, the write of every change that is to be
\* written has been attempted.
C28_WritesNotAborted ==
  writer.pc \in {"done", "exit"} =>
    \A k \in DOMAIN writer.changes :
      Writable(writer.changes[k]) => k <= writer.i
====
